---- MODULE Spec2Model ----
(***************************************************************************)
(* Cache-backed proxy for college football data (package main):            *)
(* RedisService (redis.go), main, teamsHandler, gamesHandler,              *)
(* rankingsHandler, preloadTeamsCache and preloadRankingsCache.            *)
(*                                                                         *)
(* Byte strings that carry JSON are modelled as a syntax tree plus a       *)
(* layout tag, so that json.Unmarshal, json.Marshal and Encoder.Encode are *)
(* real conversions: number literals are normalised through float64,       *)
(* string literals are unescaped and re-escaped (HTML escaping included),  *)
(* object keys are de-duplicated and sorted, whitespace is re-laid.        *)
(* Cache keys and team names are sequences of one-character strings.       *)
(***************************************************************************)
EXTENDS Integers, Sequences, FiniteSets, TLC

----------------------------------------------------------------------------
(* Strings as character sequences: strings.ToUpper, strings.ReplaceAll,    *)
(* fmt.Sprintf("%d") and the cache-key formats.                            *)

LowerLetters == <<"a", "b", "h", "i", "o", "s", "t", "e">>
UpperLetters == <<"A", "B", "H", "I", "O", "S", "T", "E">>

\* unicode.ToUpper on one character
UpperChar(c) ==
    IF \E i \in 1..Len(LowerLetters) : LowerLetters[i] = c
    THEN UpperLetters[CHOOSE i \in 1..Len(LowerLetters) : LowerLetters[i] = c]
    ELSE c

\* strings.ToUpper
ToUpper(s) == [i \in 1..Len(s) |-> UpperChar(s[i])]

\* strings.ReplaceAll(s, old, new) for a one-character old and new
ReplaceAll(s, old, new) == [i \in 1..Len(s) |-> IF s[i] = old THEN new ELSE s[i]]

Digits == <<"0", "1", "2", "3", "4", "5", "6", "7", "8", "9">>

RECURSIVE Itoa(_)
\* fmt.Sprintf("%d", n) for n >= 0
Itoa(n) == IF n < 10 THEN <<Digits[n + 1]>> ELSE Itoa(n \div 10) \o <<Digits[(n % 10) + 1]>>

\* the literal "CFB_TEAMS"
TeamsKey == <<"C", "F", "B", "_", "T", "E", "A", "M", "S">>

\* fmt.Sprintf("RANKINGS:%s", year)
RankingsKey(year) == <<"R", "A", "N", "K", "I", "N", "G", "S", ":">> \o year

\* GamesKey without the replacement of spaces
GamesKey_NoReplace(team, year) == ToUpper(team) \o <<":">> \o year

\* keyTeam := strings.ToUpper(strings.ReplaceAll(team, " ", "_"));
\* cacheKey = fmt.Sprintf("%s:%s", keyTeam, year)
GamesKey(team, year) == ToUpper(ReplaceAll(team, " ", "_")) \o <<":">> \o year

\* url.QueryEscape on the characters of the model: a space becomes "+"
QueryEscape(s) == [i \in 1..Len(s) |-> IF s[i] = " " THEN "+" ELSE s[i]]

\* the request URLs, after the host
TeamsURL(year) == <<"/teams?year=">> \o year
RankingsURL(year) == <<"/rankings?year=">> \o year
GamesURL(year, team) ==
    <<"/games?year=">> \o year \o (IF team # <<>> THEN <<"&team=">> \o QueryEscape(team) ELSE <<>>)

----------------------------------------------------------------------------
(* JSON.  A node is [t, lit, keys, items]; t is "null", "num", "str",      *)
(* "arr", "obj" for JSON, and "bad" for bytes that are not JSON, whose lit *)
(* is the bytes themselves.  The same record shape serves for the text     *)
(* (lit = the literal as written) and for the decoded Go value (lit = the  *)
(* float64 in canonical form, or the string's content; keys sorted and     *)
(* unique, as encoding/json prints a map).                                 *)

Node(t, lit, keys, items) == [t |-> t, lit |-> lit, keys |-> keys, items |-> items]
JNull == Node("null", "", <<>>, <<>>)
JNum(lit) == Node("num", lit, <<>>, <<>>)
JStr(lit) == Node("str", lit, <<>>, <<>>)
JArr(items) == Node("arr", "", <<>>, items)
JObj(keys, items) == Node("obj", "", keys, items)
JBad(bytes) == Node("bad", bytes, <<>>, <<>>)

\* strconv.ParseFloat(lit, 64) printed back by encoding/json's float encoder
Float64(lit) ==
    CASE lit = "57.0" -> "57"
      [] lit = "1e2" -> "100"
      [] lit = "9007199254740993" -> "9007199254740992"
      [] OTHER -> lit

\* the content of a JSON string literal (escape sequences resolved)
Unquote(lit) ==
    CASE lit = "Texas A\\u0026M" -> "Texas A&M"
      [] lit = "Ohio\\u0020State" -> "Ohio State"
      [] lit = "\\u003chtml\\u003e" -> "<html>"
      [] lit = "\\ufffd" -> "<U+FFFD>"
      [] OTHER -> lit

\* encoding/json's string encoder with HTML escaping on (the default of
\* json.Marshal and of json.NewEncoder); invalid UTF-8 becomes U+FFFD
Quote(s) ==
    CASE s = "Texas A&M" -> "Texas A\\u0026M"
      [] s = "<html>" -> "\\u003chtml\\u003e"
      [] s = "<0xff>" -> "\\ufffd"
      [] s = "<U+FFFD>" -> "\\ufffd"
      [] OTHER -> s

\* the order encoding/json sorts map keys in (byte order)
KeyOrder == <<"alias", "error", "id", "name", "poll", "rank", "school", "season">>

SortedKeys(K) == SelectSeq(KeyOrder, LAMBDA k : k \in K)

\* index of the last occurrence of key k in an object text (the one the decoder keeps)
LastIndex(keys, k) == CHOOSE i \in 1..Len(keys) :
    keys[i] = k /\ \A j \in 1..Len(keys) : keys[j] = k => j <= i

RECURSIVE Decode(_)
\* json.Unmarshal into interface{}: the value of a valid text
Decode(n) ==
    CASE n.t = "num" -> JNum(Float64(n.lit))
      [] n.t = "str" -> JStr(Unquote(n.lit))
      [] n.t = "arr" -> JArr([i \in 1..Len(n.items) |-> Decode(n.items[i])])
      [] n.t = "obj" ->
            LET ks == SortedKeys({n.keys[i] : i \in 1..Len(n.keys)})
            IN  JObj(ks, [i \in 1..Len(ks) |-> Decode(n.items[LastIndex(n.keys, ks[i])])])
      [] OTHER -> JNull

RECURSIVE Encode(_)
\* the JSON text encoding/json prints for a Go value
Encode(v) ==
    CASE v.t = "str" -> JStr(Quote(v.lit))
      [] v.t = "arr" -> JArr([i \in 1..Len(v.items) |-> Encode(v.items[i])])
      [] v.t = "obj" -> JObj(v.keys, [i \in 1..Len(v.items) |-> Encode(v.items[i])])
      [] OTHER -> v

\* Bytes: a text and its layout. "compact" is json.Marshal's output, "indent"
\* is Encoder.Encode's with SetIndent("", "  ") and its trailing newline,
\* "wire" is whatever the upstream sent.
Bytes(tree, layout) == [tree |-> tree, layout |-> layout]

\* json.Valid
Valid(b) == b.tree.t # "bad"

\* json.Marshal(v)
Marshal(v) == Bytes(Encode(v), "compact")

\* enc := json.NewEncoder(w); enc.SetIndent("", "  "); enc.Encode(v)
EncodeIndent(v) == Bytes(Encode(v), "indent")

\* json.Unmarshal(b, &x) with x interface{}: [ok, v]
Unmarshal(b) == IF Valid(b) THEN [ok |-> TRUE, v |-> Decode(b.tree)]
                            ELSE [ok |-> FALSE, v |-> JNull]

\* json.Unmarshal(b, &x) with x []map[string]interface{}: an array whose
\* elements are objects or null, or null itself
UnmarshalRecords(b) ==
    IF /\ Valid(b)
       /\ \/ b.tree.t = "null"
          \/ /\ b.tree.t = "arr"
             /\ \A i \in 1..Len(b.tree.items) : b.tree.items[i].t \in {"obj", "null"}
    THEN [ok |-> TRUE,
          v |-> IF b.tree.t = "null" THEN JNull ELSE Decode(b.tree)]
    ELSE [ok |-> FALSE, v |-> JNull]

\* string(body): the bytes as a Go string (used only for bodies that are not JSON)
StringOf(b) == JStr(b.tree.lit)

----------------------------------------------------------------------------
(* Team records: the simplification loop of teamsHandler and               *)
(* preloadTeamsCache, and the Team struct's JSON encoding.                 *)

\* v, ok := t[k] on a decoded record (a nil map has no keys)
Has(t, k) == \E i \in 1..Len(t.keys) : t.keys[i] = k
Field(t, k) == t.items[CHOOSE i \in 1..Len(t.keys) : t.keys[i] = k]

\* SimplifyTeam with the alias mirroring the chosen name instead of the school
SimplifyTeam_AliasFromName(t) ==
    LET id == IF Has(t, "id") THEN Field(t, "id") ELSE JNull
        school == IF Has(t, "school") /\ Field(t, "school").t = "str"
                  THEN Field(t, "school").lit ELSE ""
        name == IF school = ""
                THEN IF Has(t, "name") /\ Field(t, "name").t = "str"
                     THEN Field(t, "name").lit ELSE ""
                ELSE school
    IN  [ID |-> id, Name |-> name, Alias |-> name]

\* the loop body: one Team struct {ID, Name, Alias} from one upstream record
SimplifyTeam(t) ==
    LET id == IF Has(t, "id") THEN Field(t, "id") ELSE JNull
        \* if v, ok := t["school"]; ok { if s, ok := v.(string); ok { Name = s; Alias = s } }
        school == IF Has(t, "school") /\ Field(t, "school").t = "str"
                  THEN Field(t, "school").lit ELSE ""
        \* if team.Name == "" { if v, ok := t["name"]; ok { if s, ok := v.(string); ok { Name = s } } }
        name == IF school = ""
                THEN IF Has(t, "name") /\ Field(t, "name").t = "str"
                     THEN Field(t, "name").lit ELSE ""
                ELSE school
    IN  [ID |-> id, Name |-> name, Alias |-> school]

\* out := make([]Team, 0, len(raw)); for _, t := range raw { ... append }
Simplify(raw) ==
    IF raw.t = "arr" THEN [i \in 1..Len(raw.items) |-> SimplifyTeam(raw.items[i])]
    ELSE <<>>

\* the Alias field tagged `json:"alias,omitempty"`
AliasTag_Alias == "alias"

\* the JSON name of the Alias field: the tag `json:"school,omitempty"`
AliasTag == "school"

\* encoding/json on a Team struct: fields in declaration order, Alias omitted when empty
EncodeTeam(team) ==
    IF team.Alias = ""
    THEN JObj(<<"id", "name">>, <<Encode(team.ID), JStr(Quote(team.Name))>>)
    ELSE JObj(<<"id", "name", AliasTag>>,
              <<Encode(team.ID), JStr(Quote(team.Name)), JStr(Quote(team.Alias))>>)

EncodeTeams(out) == JArr([i \in 1..Len(out) |-> EncodeTeam(out[i])])

----------------------------------------------------------------------------
(* Bounds and program constants                                            *)

\* first year of the rankings preload loop
FirstYear == 1900
\* time.Now().Year(): the simulated current year
CurrentYear == 1901
\* 365*24*time.Hour, in hours
OneYear == 365 * 24
\* remaining time to live of an entry left by an earlier run, in hours
AgedTTL == 100
\* http.Client timeouts, in seconds
HandlerTimeout == 10
PreloadTeamsTimeout == 10
PreloadRankingsTimeout == 30
\* time.Sleep(100 * time.Millisecond), in milliseconds
PreloadSleep == 100

Workers == {1, 2}

----------------------------------------------------------------------------
(* Upstream responses                                                      *)

Resp(status, ctype, body) == [status |-> status, ctype |-> ctype, body |-> body]
NoBytes == Bytes(JBad(""), "none")
NoResp == Resp(0, "", NoBytes)

Html == Bytes(JBad("<html>"), "wire")
ErrorObject == Bytes(JObj(<<"error">>, <<JStr("x")>>), "wire")

\* [{"id":57,"school":"Ohio State"},{"id":12,"name":"Fallback U"}]
TeamsBodyA == Bytes(JArr(<<
    JObj(<<"id", "school">>, <<JNum("57"), JStr("Ohio State")>>),
    JObj(<<"id", "name">>, <<JNum("12"), JStr("Fallback U")>>) >>), "wire")

\* [{"school":"Texas A&M","name":"TAMU","id":57.0},{"school":"","name":"Fallback U"},
\*  {"id":"x","school":null,"name":"Ohio State"},{"id":12,"name":7},null]
TeamsBodyB == Bytes(JArr(<<
    JObj(<<"school", "name", "id">>, <<JStr("Texas A&M"), JStr("TAMU"), JNum("57.0")>>),
    JObj(<<"school", "name">>, <<JStr(""), JStr("Fallback U")>>),
    JObj(<<"id", "school", "name">>, <<JStr("x"), JNull, JStr("Ohio\\u0020State")>>),
    JObj(<<"id", "name">>, <<JNum("12"), JNum("7")>>),
    JNull >>), "wire")

\* [{"season":57.0,"school":"Texas A&M","rank":9007199254740993,"poll":"�"}]
PayloadA == Bytes(JArr(<<
    JObj(<<"season", "school", "rank", "poll">>,
         <<JNum("57.0"), JStr("Texas A&M"), JNum("9007199254740993"), JStr("\\ufffd")>>) >>), "wire")

\* []
PayloadB == Bytes(JArr(<<>>), "wire")

\* what /games and /rankings answer: a list, an empty list, an error object, an error page
PayloadResponses == {
    Resp(200, "application/json", PayloadA),
    Resp(200, "application/json", PayloadB),
    Resp(404, "application/json", ErrorObject),
    Resp(500, "text/html", Html) }

TeamsResponses == {
    Resp(200, "application/json", TeamsBodyA),
    Resp(200, "application/json", TeamsBodyB),
    Resp(401, "application/json", ErrorObject),
    Resp(500, "text/html", Html) }

----------------------------------------------------------------------------
(* State                                                                   *)

VARIABLES
    mainpc,        \* where main() is
    redisService,  \* TRUE when the global redisService is non-nil
    store,         \* the Redis database: key -> [val, ttl], present keys only
    h,             \* per worker: the request it is serving
    pre            \* the preload procedure in progress

vars == <<mainpc, redisService, store, h, pre>>

\* one call on the store or on the upstream, as the history keeps it: the
\* command, its key (or URL), whether it returned without error, and for an
\* EXISTS whether the key was in the store at that moment
Event(op, key, ok, timeout) == [op |-> op, key |-> key, ok |-> ok, timeout |-> timeout, present |-> FALSE]
ExistsEvent(key, ok) == [op |-> "EXISTS", key |-> key, ok |-> ok, timeout |-> 0, present |-> key \in DOMAIN store]

Idle == [pc |-> "idle", kind |-> "", year |-> <<>>, team |-> <<>>, cacheKey |-> <<>>,
         got |-> NoBytes, up |-> NoResp, resp |-> NoResp, log |-> <<>>]

PreIdle == [pc |-> "start", y |-> FirstYear, up |-> NoResp, log |-> <<>>, err |-> ""]

\* rs.client.Set(ctx, key, string(jsonData), expiration)
RedisSet(s, key, val, ttl) ==
    [k \in DOMAIN s \cup {key} |-> IF k = key THEN [val |-> val, ttl |-> ttl] ELSE s[k]]

\* removal of a key (expiry)
RedisDrop(s, key) == [k \in DOMAIN s \ {key} |-> s[k]]

\* http.Error(w, err.Error(), code)
HttpError(code) == Resp(code, "text/plain; charset=utf-8", Bytes(JBad("error"), "wire"))

\* the literal "application/json"
JsonType == "application/json"

\* year := r.URL.Query().Get("year"); if year == "" { year = current year }
YearOrDefault(year) == IF year = <<>> THEN Itoa(CurrentYear) ELSE year

\* the years a request may name ("" stands for an absent parameter)
RequestYears == {<<>>, Itoa(FirstYear), Itoa(CurrentYear)}

\* one Redis command issued by worker w: the command, its key, whether it returned without error
Logged(w, op, key, ok) == Append(h[w].log, Event(op, key, ok, 0))

\* respond and return
Respond(w, rec, resp) == [h EXCEPT ![w] = [rec EXCEPT !.pc = "done", !.resp = resp]]

----------------------------------------------------------------------------
(* main(): NewRedisService, the two preloads, ListenAndServe               *)

\* NewRedisService with the preloads called whether or not the ping succeeded
NewRedisService_AlwaysPreload ==
    /\ mainpc = "start"
    /\ \E ping \in BOOLEAN :
         /\ redisService' = ping
         /\ mainpc' = "preloadTeams"
    /\ UNCHANGED <<store, h, pre>>

\* redisService, err = NewRedisService(): Ping within 5 seconds succeeds or fails
NewRedisService ==
    /\ mainpc = "start"
    /\ \E ping \in BOOLEAN :
         /\ redisService' = ping
         /\ mainpc' = IF ping THEN "preloadTeams" ELSE "listen"
    /\ UNCHANGED <<store, h, pre>>

\* preloadTeamsCache_Exists without the early return on an existing key
preloadTeamsCache_Exists_NoSkip ==
    /\ mainpc = "preloadTeams" /\ pre.pc = "start"
    /\ \E ok \in BOOLEAN :
         /\ pre' = [pre EXCEPT !.log = Append(@, ExistsEvent(TeamsKey, ok)), !.pc = "fetch"]
         /\ mainpc' = mainpc
    /\ UNCHANGED <<redisService, store, h>>

\* preloadTeamsCache, lines 378-383: the existence check
preloadTeamsCache_Exists ==
    /\ mainpc = "preloadTeams" /\ pre.pc = "start"
    /\ \E ok \in BOOLEAN :
         LET log == Append(pre.log, ExistsEvent(TeamsKey, ok))
         IN  IF ok /\ TeamsKey \in DOMAIN store
             THEN /\ pre' = [pre EXCEPT !.log = log, !.pc = "start"]
                  /\ mainpc' = "preloadRankings"
             ELSE /\ pre' = [pre EXCEPT !.log = log, !.pc = "fetch"]
                  /\ mainpc' = mainpc
    /\ UNCHANGED <<redisService, store, h>>

\* preloadTeamsCache_Fetch with main treating the preload's error as fatal
preloadTeamsCache_Fetch_Fatal(responses) ==
    /\ mainpc = "preloadTeams" /\ pre.pc = "fetch"
    /\ LET log(ok) == Append(pre.log, Event("HTTP", TeamsURL(Itoa(CurrentYear)), ok, PreloadTeamsTimeout))
       IN  \/ \E e \in {"failed to fetch teams", "failed to read response body"} :
                /\ pre' = [pre EXCEPT !.log = log(FALSE), !.pc = "start", !.err = e]
                /\ mainpc' = "exit"
           \/ \E u \in responses :
                IF UnmarshalRecords(u.body).ok
                THEN /\ pre' = [pre EXCEPT !.log = log(TRUE), !.pc = "set", !.up = u]
                     /\ mainpc' = mainpc
                ELSE /\ pre' = [pre EXCEPT !.log = log(TRUE), !.pc = "start", !.up = u,
                                           !.err = "failed to unmarshal teams"]
                     /\ mainpc' = "exit"
    /\ UNCHANGED <<redisService, store, h>>

\* preloadTeamsCache, lines 387-413: the upstream call and the parse
preloadTeamsCache_Fetch(responses) ==
    /\ mainpc = "preloadTeams" /\ pre.pc = "fetch"
    /\ LET log(ok) == Append(pre.log, Event("HTTP", TeamsURL(Itoa(CurrentYear)), ok, PreloadTeamsTimeout))
       IN  \/ \E e \in {"failed to fetch teams", "failed to read response body"} :
                /\ pre' = [pre EXCEPT !.log = log(FALSE), !.pc = "start", !.err = e]
                /\ mainpc' = "preloadRankings"
           \/ \E u \in responses :
                IF UnmarshalRecords(u.body).ok
                THEN /\ pre' = [pre EXCEPT !.log = log(TRUE), !.pc = "set", !.up = u]
                     /\ mainpc' = mainpc
                ELSE /\ pre' = [pre EXCEPT !.log = log(TRUE), !.pc = "start", !.up = u,
                                           !.err = "failed to unmarshal teams"]
                     /\ mainpc' = "preloadRankings"
    /\ UNCHANGED <<redisService, store, h>>

\* preloadTeamsCache_Set caching the upstream records as they came
preloadTeamsCache_Set_Unsimplified ==
    /\ mainpc = "preloadTeams" /\ pre.pc = "set"
    /\ LET teams == UnmarshalRecords(pre.up.body).v
       IN  \E ok \in BOOLEAN :
             /\ store' = IF ok THEN RedisSet(store, TeamsKey, Marshal(teams), OneYear)
                               ELSE store
             /\ pre' = [pre EXCEPT !.log = Append(@, Event("SET", TeamsKey, ok, 0)), !.pc = "start",
                                   !.err = IF ok THEN "" ELSE "failed to cache teams"]
    /\ mainpc' = "preloadRankings"
    /\ UNCHANGED <<redisService, h>>

\* preloadTeamsCache, lines 415-449: simplify and cache
preloadTeamsCache_Set ==
    /\ mainpc = "preloadTeams" /\ pre.pc = "set"
    /\ LET teams == Simplify(UnmarshalRecords(pre.up.body).v)
       IN  \E ok \in BOOLEAN :
             /\ store' = IF ok THEN RedisSet(store, TeamsKey, Bytes(EncodeTeams(teams), "compact"), OneYear)
                               ELSE store
             /\ pre' = [pre EXCEPT !.log = Append(@, Event("SET", TeamsKey, ok, 0)), !.pc = "start",
                                   !.err = IF ok THEN "" ELSE "failed to cache teams"]
    /\ mainpc' = "preloadRankings"
    /\ UNCHANGED <<redisService, h>>

\* http.ListenAndServe: the handlers are served from here on
ListenAndServe ==
    /\ mainpc = "listen"
    /\ mainpc' = "serving"
    /\ pre' = PreIdle
    /\ UNCHANGED <<redisService, store, h>>

\* a key's time to live runs out. An entry written by this process has a year
\* to live, which the startup phase (at most 30 s per year of the loop) never
\* reaches; an entry left by an earlier run may go at any time.
Expire ==
    /\ \E k \in DOMAIN store :
         /\ store[k].ttl < OneYear \/ mainpc = "serving"
         /\ store' = RedisDrop(store, k)
    /\ UNCHANGED <<mainpc, redisService, h, pre>>

----------------------------------------------------------------------------
(* teamsHandler                                                            *)

\* teamsHandler_Exists with the server already listening while the preloads run
teamsHandler_Exists_DuringPreload(w, yearParam) ==
    /\ mainpc \in {"preloadTeams", "preloadRankings", "serving"} /\ h[w].pc = "idle"
    /\ LET rec == [Idle EXCEPT !.kind = "teams", !.year = YearOrDefault(yearParam)]
       IN  IF redisService
           THEN \E ok \in BOOLEAN :
                  h' = [h EXCEPT ![w] = [rec EXCEPT
                          !.log = <<ExistsEvent(TeamsKey, ok)>>,
                          !.pc = IF ok /\ TeamsKey \in DOMAIN store THEN "get" ELSE "fetch"]]
           ELSE h' = [h EXCEPT ![w] = [rec EXCEPT !.pc = "fetch"]]
    /\ UNCHANGED <<mainpc, redisService, store, pre>>

\* lines 165-175: the request arrives; with a store, EXISTS CFB_TEAMS
teamsHandler_Exists(w, yearParam) ==
    /\ mainpc = "serving" /\ h[w].pc = "idle"
    /\ LET rec == [Idle EXCEPT !.kind = "teams", !.year = YearOrDefault(yearParam)]
       IN  IF redisService
           THEN \E ok \in BOOLEAN :
                  h' = [h EXCEPT ![w] = [rec EXCEPT
                          !.log = <<ExistsEvent(TeamsKey, ok)>>,
                          !.pc = IF ok /\ TeamsKey \in DOMAIN store THEN "get" ELSE "fetch"]]
           ELSE h' = [h EXCEPT ![w] = [rec EXCEPT !.pc = "fetch"]]
    /\ UNCHANGED <<mainpc, redisService, store, pre>>

\* teamsHandler_Get without the return after a successful decode
teamsHandler_Get_NoReturn(w) ==
    /\ h[w].pc = "get" /\ h[w].kind = "teams"
    /\ \/ h' = [h EXCEPT ![w].log = Logged(w, "GET", TeamsKey, FALSE), ![w].pc = "fetch"]
       \/ /\ TeamsKey \in DOMAIN store
          /\ h' = [h EXCEPT ![w].log = Logged(w, "GET", TeamsKey, TRUE),
                            ![w].got = store[TeamsKey].val, ![w].pc = "fetch"]
    /\ UNCHANGED <<mainpc, redisService, store, pre>>

\* lines 176-187: GET CFB_TEAMS into []map[string]interface{} and answer from it
teamsHandler_Get(w) ==
    /\ h[w].pc = "get" /\ h[w].kind = "teams"
    /\ \/ \* the command fails, or the key is gone (redis.Nil)
          h' = [h EXCEPT ![w].log = Logged(w, "GET", TeamsKey, FALSE), ![w].pc = "fetch"]
       \/ /\ TeamsKey \in DOMAIN store
          /\ LET val == store[TeamsKey].val
                 teams == UnmarshalRecords(val)
                 rec == [h[w] EXCEPT !.log = Logged(w, "GET", TeamsKey, TRUE), !.got = val]
             IN  IF teams.ok
                 THEN h' = Respond(w, rec, Resp(200, JsonType, EncodeIndent(teams.v)))
                 ELSE h' = [h EXCEPT ![w] = [rec EXCEPT !.pc = "fetch"]]
    /\ UNCHANGED <<mainpc, redisService, store, pre>>

\* teamsHandler_Fetch answering an unparseable body the way the games handler does
teamsHandler_Fetch_NoStatus(w, responses) ==
    /\ h[w].pc = "fetch" /\ h[w].kind = "teams"
    /\ LET log(ok) == Append(h[w].log, Event("HTTP", TeamsURL(h[w].year), ok, HandlerTimeout))
       IN  \/ h' = Respond(w, [h[w] EXCEPT !.log = log(FALSE)], HttpError(502))
           \/ h' = Respond(w, [h[w] EXCEPT !.log = log(FALSE)], HttpError(500))
           \/ \E u \in responses :
                LET rec == [h[w] EXCEPT !.log = log(TRUE), !.up = u]
                    raw == UnmarshalRecords(u.body)
                IN  IF ~raw.ok
                    THEN h' = Respond(w, rec, Resp(200, JsonType, u.body))
                    ELSE IF redisService
                    THEN h' = [h EXCEPT ![w] = [rec EXCEPT !.pc = "set"]]
                    ELSE h' = Respond(w, rec,
                                 Resp(200, JsonType, Bytes(EncodeTeams(Simplify(raw.v)), "indent")))
    /\ UNCHANGED <<mainpc, redisService, store, pre>>

\* lines 190-251: the upstream call, the parse and the simplification
teamsHandler_Fetch(w, responses) ==
    /\ h[w].pc = "fetch" /\ h[w].kind = "teams"
    /\ LET log(ok) == Append(h[w].log, Event("HTTP", TeamsURL(h[w].year), ok, HandlerTimeout))
       IN  \/ \* client.Do fails
              h' = Respond(w, [h[w] EXCEPT !.log = log(FALSE)], HttpError(502))
           \/ \* ioutil.ReadAll fails
              h' = Respond(w, [h[w] EXCEPT !.log = log(FALSE)], HttpError(500))
           \/ \E u \in responses :
                LET rec == [h[w] EXCEPT !.log = log(TRUE), !.up = u]
                    raw == UnmarshalRecords(u.body)
                IN  IF ~raw.ok
                    THEN h' = Respond(w, rec, Resp(u.status, u.ctype, u.body))
                    ELSE IF redisService
                    THEN h' = [h EXCEPT ![w] = [rec EXCEPT !.pc = "set"]]
                    ELSE h' = Respond(w, rec,
                                 Resp(200, JsonType, Bytes(EncodeTeams(Simplify(raw.v)), "indent")))
    /\ UNCHANGED <<mainpc, redisService, store, pre>>

\* teamsHandler_Set with the key parameterised by the requested year
teamsHandler_Set_PerYear(w) ==
    /\ h[w].pc = "set" /\ h[w].kind = "teams"
    /\ LET out == Simplify(UnmarshalRecords(h[w].up.body).v)
           key == TeamsKey \o <<":">> \o h[w].year
       IN  \E ok \in BOOLEAN :
             /\ store' = IF ok THEN RedisSet(store, key, Bytes(EncodeTeams(out), "compact"), OneYear)
                               ELSE store
             /\ h' = Respond(w, [h[w] EXCEPT !.log = Logged(w, "SET", key, ok)],
                             Resp(200, JsonType, Bytes(EncodeTeams(out), "indent")))
    /\ UNCHANGED <<mainpc, redisService, pre>>

\* teamsHandler_Set answering with the upstream body, as gamesHandler does
teamsHandler_Set_AnswersUpstream(w) ==
    /\ h[w].pc = "set" /\ h[w].kind = "teams"
    /\ LET out == Simplify(UnmarshalRecords(h[w].up.body).v)
       IN  \E ok \in BOOLEAN :
             /\ store' = IF ok THEN RedisSet(store, TeamsKey, Bytes(EncodeTeams(out), "compact"), OneYear)
                               ELSE store
             /\ h' = Respond(w, [h[w] EXCEPT !.log = Logged(w, "SET", TeamsKey, ok)],
                             Resp(200, JsonType, h[w].up.body))
    /\ UNCHANGED <<mainpc, redisService, pre>>

\* lines 253-267: SET CFB_TEAMS (best effort) and the answer
teamsHandler_Set(w) ==
    /\ h[w].pc = "set" /\ h[w].kind = "teams"
    /\ LET out == Simplify(UnmarshalRecords(h[w].up.body).v)
       IN  \E ok \in BOOLEAN :
             /\ store' = IF ok THEN RedisSet(store, TeamsKey, Bytes(EncodeTeams(out), "compact"), OneYear)
                               ELSE store
             /\ h' = Respond(w, [h[w] EXCEPT !.log = Logged(w, "SET", TeamsKey, ok)],
                             Resp(200, JsonType, Bytes(EncodeTeams(out), "indent")))
    /\ UNCHANGED <<mainpc, redisService, pre>>

----------------------------------------------------------------------------
(* gamesHandler                                                            *)

\* gamesHandler_Exists with the key built whether or not a team was given
gamesHandler_Exists_NoTeamCheck(w, yearParam, team) ==
    /\ mainpc = "serving" /\ h[w].pc = "idle"
    /\ LET year == YearOrDefault(yearParam)
           rec == [Idle EXCEPT !.kind = "games", !.year = year, !.team = team]
       IN  IF redisService
           THEN LET cacheKey == GamesKey(team, year)
                IN  \E ok \in BOOLEAN :
                      h' = [h EXCEPT ![w] = [rec EXCEPT
                              !.cacheKey = cacheKey,
                              !.log = <<ExistsEvent(cacheKey, ok)>>,
                              !.pc = IF ok /\ cacheKey \in DOMAIN store THEN "get" ELSE "fetch"]]
           ELSE h' = [h EXCEPT ![w] = [rec EXCEPT !.pc = "fetch"]]
    /\ UNCHANGED <<mainpc, redisService, store, pre>>

\* lines 81-95: the request arrives; with a team and a store, the key and EXISTS
gamesHandler_Exists(w, yearParam, team) ==
    /\ mainpc = "serving" /\ h[w].pc = "idle"
    /\ LET year == YearOrDefault(yearParam)
           rec == [Idle EXCEPT !.kind = "games", !.year = year, !.team = team]
       IN  IF team # <<>> /\ redisService
           THEN LET cacheKey == GamesKey(team, year)
                IN  \E ok \in BOOLEAN :
                      h' = [h EXCEPT ![w] = [rec EXCEPT
                              !.cacheKey = cacheKey,
                              !.log = <<ExistsEvent(cacheKey, ok)>>,
                              !.pc = IF ok /\ cacheKey \in DOMAIN store THEN "get" ELSE "fetch"]]
           ELSE h' = [h EXCEPT ![w] = [rec EXCEPT !.pc = "fetch"]]
    /\ UNCHANGED <<mainpc, redisService, store, pre>>

\* gamesHandler_Get failing the request when the stored value does not decode
gamesHandler_Get_FailOnDecode(w) ==
    /\ h[w].pc = "get" /\ h[w].kind = "games"
    /\ \/ h' = [h EXCEPT ![w].log = Logged(w, "GET", h[w].cacheKey, FALSE), ![w].pc = "fetch"]
       \/ /\ h[w].cacheKey \in DOMAIN store
          /\ LET val == store[h[w].cacheKey].val
                 cached == Unmarshal(val)
                 rec == [h[w] EXCEPT !.log = Logged(w, "GET", h[w].cacheKey, TRUE), !.got = val]
             IN  IF cached.ok
                 THEN h' = Respond(w, rec, Resp(200, JsonType, EncodeIndent(cached.v)))
                 ELSE h' = Respond(w, rec, HttpError(500))
    /\ UNCHANGED <<mainpc, redisService, store, pre>>

\* gamesHandler_Get renewing the entry's expiry on a hit
gamesHandler_Get_Refresh(w) ==
    /\ h[w].pc = "get" /\ h[w].kind = "games"
    /\ \/ /\ h' = [h EXCEPT ![w].log = Logged(w, "GET", h[w].cacheKey, FALSE), ![w].pc = "fetch"]
          /\ store' = store
       \/ /\ h[w].cacheKey \in DOMAIN store
          /\ LET val == store[h[w].cacheKey].val
                 cached == Unmarshal(val)
                 rec == [h[w] EXCEPT !.log = Logged(w, "GET", h[w].cacheKey, TRUE), !.got = val]
             IN  IF cached.ok
                 THEN /\ h' = Respond(w, rec, Resp(200, JsonType, EncodeIndent(cached.v)))
                      /\ store' = RedisSet(store, h[w].cacheKey, val, OneYear)
                 ELSE /\ h' = [h EXCEPT ![w] = [rec EXCEPT !.pc = "fetch"]]
                      /\ store' = store
    /\ UNCHANGED <<mainpc, redisService, pre>>

\* lines 96-108: GET the key into interface{} and answer from it
gamesHandler_Get(w) ==
    /\ h[w].pc = "get" /\ h[w].kind = "games"
    /\ \/ \* the command fails, or the key is gone (redis.Nil)
          h' = [h EXCEPT ![w].log = Logged(w, "GET", h[w].cacheKey, FALSE), ![w].pc = "fetch"]
       \/ /\ h[w].cacheKey \in DOMAIN store
          /\ LET val == store[h[w].cacheKey].val
                 cached == Unmarshal(val)
                 rec == [h[w] EXCEPT !.log = Logged(w, "GET", h[w].cacheKey, TRUE), !.got = val]
             IN  IF cached.ok
                 THEN h' = Respond(w, rec, Resp(200, JsonType, EncodeIndent(cached.v)))
                 ELSE h' = [h EXCEPT ![w] = [rec EXCEPT !.pc = "fetch"]]
    /\ UNCHANGED <<mainpc, redisService, store, pre>>

\* gamesHandler_Fetch trying the upstream again after a failed client.Do
gamesHandler_Fetch_Retry(w, responses) ==
    /\ h[w].pc = "fetch" /\ h[w].kind = "games"
    /\ LET log(ok) == Append(h[w].log, Event("HTTP", GamesURL(h[w].year, h[w].team), ok, HandlerTimeout))
       IN  \/ /\ \A i \in 1..Len(h[w].log) : h[w].log[i].op # "HTTP"
              /\ h' = [h EXCEPT ![w].log = log(FALSE)]
           \/ h' = Respond(w, [h[w] EXCEPT !.log = log(FALSE)], HttpError(502))
           \/ h' = Respond(w, [h[w] EXCEPT !.log = log(FALSE)], HttpError(500))
           \/ \E u \in responses :
                LET rec == [h[w] EXCEPT !.log = log(TRUE), !.up = u]
                IN  IF h[w].cacheKey # <<>> /\ redisService
                    THEN h' = [h EXCEPT ![w] = [rec EXCEPT !.pc = "set"]]
                    ELSE h' = Respond(w, rec, Resp(200, JsonType, u.body))
    /\ UNCHANGED <<mainpc, redisService, store, pre>>

\* lines 111-137: the upstream call
gamesHandler_Fetch(w, responses) ==
    /\ h[w].pc = "fetch" /\ h[w].kind = "games"
    /\ LET log(ok) == Append(h[w].log, Event("HTTP", GamesURL(h[w].year, h[w].team), ok, HandlerTimeout))
       IN  \/ \* client.Do fails
              h' = Respond(w, [h[w] EXCEPT !.log = log(FALSE)], HttpError(502))
           \/ \* ioutil.ReadAll fails
              h' = Respond(w, [h[w] EXCEPT !.log = log(FALSE)], HttpError(500))
           \/ \E u \in responses :
                LET rec == [h[w] EXCEPT !.log = log(TRUE), !.up = u]
                IN  IF h[w].cacheKey # <<>> /\ redisService
                    THEN h' = [h EXCEPT ![w] = [rec EXCEPT !.pc = "set"]]
                    ELSE h' = Respond(w, rec, Resp(200, JsonType, u.body))
    /\ UNCHANGED <<mainpc, redisService, store, pre>>

\* what the games and rankings paths hand to SetWithExpiration for a body:
\* the decoded structure, or string(body) when it does not decode
Cacheable(body) == IF Unmarshal(body).ok THEN Unmarshal(body).v ELSE StringOf(body)

\* gamesHandler_Set through RedisService.Set, which gives the key no expiry
gamesHandler_Set_NoExpiry(w) ==
    /\ h[w].pc = "set" /\ h[w].kind = "games"
    /\ \E ok \in BOOLEAN :
         /\ store' = IF ok THEN RedisSet(store, h[w].cacheKey, Marshal(Cacheable(h[w].up.body)), 0)
                           ELSE store
         /\ h' = Respond(w, [h[w] EXCEPT !.log = Logged(w, "SET", h[w].cacheKey, ok)],
                         Resp(200, JsonType, h[w].up.body))
    /\ UNCHANGED <<mainpc, redisService, pre>>

\* gamesHandler_Set failing the request when the write fails
gamesHandler_Set_Surfaced(w) ==
    /\ h[w].pc = "set" /\ h[w].kind = "games"
    /\ \E ok \in BOOLEAN :
         /\ store' = IF ok THEN RedisSet(store, h[w].cacheKey, Marshal(Cacheable(h[w].up.body)), OneYear)
                           ELSE store
         /\ h' = Respond(w, [h[w] EXCEPT !.log = Logged(w, "SET", h[w].cacheKey, ok)],
                         IF ok THEN Resp(200, JsonType, h[w].up.body) ELSE HttpError(500))
    /\ UNCHANGED <<mainpc, redisService, pre>>

\* lines 139-159: SET the key (best effort) and the raw body as the answer
gamesHandler_Set(w) ==
    /\ h[w].pc = "set" /\ h[w].kind = "games"
    /\ \E ok \in BOOLEAN :
         /\ store' = IF ok THEN RedisSet(store, h[w].cacheKey, Marshal(Cacheable(h[w].up.body)), OneYear)
                           ELSE store
         /\ h' = Respond(w, [h[w] EXCEPT !.log = Logged(w, "SET", h[w].cacheKey, ok)],
                         Resp(200, JsonType, h[w].up.body))
    /\ UNCHANGED <<mainpc, redisService, pre>>

----------------------------------------------------------------------------
(* rankingsHandler                                                         *)

\* rankingsHandler_Exists with the server already listening while the preload runs
rankingsHandler_Exists_DuringPreload(w, yearParam) ==
    /\ mainpc \in {"preloadRankings", "serving"} /\ h[w].pc = "idle"
    /\ LET year == YearOrDefault(yearParam)
           cacheKey == RankingsKey(year)
           rec == [Idle EXCEPT !.kind = "rankings", !.year = year, !.cacheKey = cacheKey]
       IN  IF redisService
           THEN \E ok \in BOOLEAN :
                  h' = [h EXCEPT ![w] = [rec EXCEPT
                          !.log = <<ExistsEvent(cacheKey, ok)>>,
                          !.pc = IF ok /\ cacheKey \in DOMAIN store THEN "get" ELSE "fetch"]]
           ELSE h' = [h EXCEPT ![w] = [rec EXCEPT !.pc = "fetch"]]
    /\ UNCHANGED <<mainpc, redisService, store, pre>>

\* lines 273-282: the request arrives; the key; with a store, EXISTS
rankingsHandler_Exists(w, yearParam) ==
    /\ mainpc = "serving" /\ h[w].pc = "idle"
    /\ LET year == YearOrDefault(yearParam)
           cacheKey == RankingsKey(year)
           rec == [Idle EXCEPT !.kind = "rankings", !.year = year, !.cacheKey = cacheKey]
       IN  IF redisService
           THEN \E ok \in BOOLEAN :
                  h' = [h EXCEPT ![w] = [rec EXCEPT
                          !.log = <<ExistsEvent(cacheKey, ok)>>,
                          !.pc = IF ok /\ cacheKey \in DOMAIN store THEN "get" ELSE "fetch"]]
           ELSE h' = [h EXCEPT ![w] = [rec EXCEPT !.pc = "fetch"]]
    /\ UNCHANGED <<mainpc, redisService, store, pre>>

\* rankingsHandler_Get answering with the stored text taken as a string, not decoded
rankingsHandler_Get_NoDecode(w) ==
    /\ h[w].pc = "get" /\ h[w].kind = "rankings"
    /\ \/ h' = [h EXCEPT ![w].log = Logged(w, "GET", h[w].cacheKey, FALSE), ![w].pc = "fetch"]
       \/ /\ h[w].cacheKey \in DOMAIN store
          /\ LET val == store[h[w].cacheKey].val
                 rec == [h[w] EXCEPT !.log = Logged(w, "GET", h[w].cacheKey, TRUE), !.got = val]
             IN  IF Unmarshal(val).ok
                 THEN h' = Respond(w, rec, Resp(200, JsonType, EncodeIndent(JStr("cached"))))
                 ELSE h' = [h EXCEPT ![w] = [rec EXCEPT !.pc = "fetch"]]
    /\ UNCHANGED <<mainpc, redisService, store, pre>>

\* rankingsHandler_Get answering 500 when the GET returns an error
rankingsHandler_Get_ErrorFails(w) ==
    /\ h[w].pc = "get" /\ h[w].kind = "rankings"
    /\ \/ h' = Respond(w, [h[w] EXCEPT !.log = Logged(w, "GET", h[w].cacheKey, FALSE)], HttpError(500))
       \/ /\ h[w].cacheKey \in DOMAIN store
          /\ LET val == store[h[w].cacheKey].val
                 cached == Unmarshal(val)
                 rec == [h[w] EXCEPT !.log = Logged(w, "GET", h[w].cacheKey, TRUE), !.got = val]
             IN  IF cached.ok
                 THEN h' = Respond(w, rec, Resp(200, JsonType, EncodeIndent(cached.v)))
                 ELSE h' = [h EXCEPT ![w] = [rec EXCEPT !.pc = "fetch"]]
    /\ UNCHANGED <<mainpc, redisService, store, pre>>

\* lines 283-294: GET the key into interface{} and answer from it
rankingsHandler_Get(w) ==
    /\ h[w].pc = "get" /\ h[w].kind = "rankings"
    /\ \/ \* the command fails, or the key is gone (redis.Nil)
          h' = [h EXCEPT ![w].log = Logged(w, "GET", h[w].cacheKey, FALSE), ![w].pc = "fetch"]
       \/ /\ h[w].cacheKey \in DOMAIN store
          /\ LET val == store[h[w].cacheKey].val
                 cached == Unmarshal(val)
                 rec == [h[w] EXCEPT !.log = Logged(w, "GET", h[w].cacheKey, TRUE), !.got = val]
             IN  IF cached.ok
                 THEN h' = Respond(w, rec, Resp(200, JsonType, EncodeIndent(cached.v)))
                 ELSE h' = [h EXCEPT ![w] = [rec EXCEPT !.pc = "fetch"]]
    /\ UNCHANGED <<mainpc, redisService, store, pre>>

\* rankingsHandler_Fetch without the `redisService != nil` test before the write
rankingsHandler_Fetch_NoNilCheck(w, responses) ==
    /\ h[w].pc = "fetch" /\ h[w].kind = "rankings"
    /\ LET log(ok) == Append(h[w].log, Event("HTTP", RankingsURL(h[w].year), ok, HandlerTimeout))
       IN  \/ h' = Respond(w, [h[w] EXCEPT !.log = log(FALSE)], HttpError(502))
           \/ \E u \in responses :
                h' = [h EXCEPT ![w] = [h[w] EXCEPT !.log = log(TRUE), !.up = u, !.pc = "set"]]
    /\ UNCHANGED <<mainpc, redisService, store, pre>>

\* lines 297-320: the upstream call
rankingsHandler_Fetch(w, responses) ==
    /\ h[w].pc = "fetch" /\ h[w].kind = "rankings"
    /\ LET log(ok) == Append(h[w].log, Event("HTTP", RankingsURL(h[w].year), ok, HandlerTimeout))
       IN  \/ \* client.Do fails
              h' = Respond(w, [h[w] EXCEPT !.log = log(FALSE)], HttpError(502))
           \/ \* ioutil.ReadAll fails
              h' = Respond(w, [h[w] EXCEPT !.log = log(FALSE)], HttpError(500))
           \/ \E u \in responses :
                LET rec == [h[w] EXCEPT !.log = log(TRUE), !.up = u]
                IN  IF redisService
                    THEN h' = [h EXCEPT ![w] = [rec EXCEPT !.pc = "set"]]
                    ELSE h' = Respond(w, rec, Resp(200, JsonType, u.body))
    /\ UNCHANGED <<mainpc, redisService, store, pre>>

\* rankingsHandler_Set leaving alone a key whose value the request had read
rankingsHandler_Set_KeepRead(w) ==
    /\ h[w].pc = "set" /\ h[w].kind = "rankings"
    /\ \E ok \in BOOLEAN :
         /\ store' = IF ok /\ h[w].got = NoBytes
                     THEN RedisSet(store, h[w].cacheKey, Marshal(Cacheable(h[w].up.body)), OneYear)
                     ELSE store
         /\ h' = Respond(w, [h[w] EXCEPT !.log = Logged(w, "SET", h[w].cacheKey, ok)],
                         Resp(200, JsonType, h[w].up.body))
    /\ UNCHANGED <<mainpc, redisService, pre>>

\* rankingsHandler_Set writing only when the key is not there (SET NX)
rankingsHandler_Set_NX(w) ==
    /\ h[w].pc = "set" /\ h[w].kind = "rankings"
    /\ \E ok \in BOOLEAN :
         /\ store' = IF ok /\ h[w].cacheKey \notin DOMAIN store
                     THEN RedisSet(store, h[w].cacheKey, Marshal(Cacheable(h[w].up.body)), OneYear)
                     ELSE store
         /\ h' = Respond(w, [h[w] EXCEPT !.log = Logged(w, "SET", h[w].cacheKey, ok)],
                         Resp(200, JsonType, h[w].up.body))
    /\ UNCHANGED <<mainpc, redisService, pre>>

\* rankingsHandler_Set writing under the current year's key whatever year was asked for
rankingsHandler_Set_CurrentYear(w) ==
    /\ h[w].pc = "set" /\ h[w].kind = "rankings"
    /\ LET key == RankingsKey(Itoa(CurrentYear))
       IN  \E ok \in BOOLEAN :
             /\ store' = IF ok THEN RedisSet(store, key, Marshal(Cacheable(h[w].up.body)), OneYear)
                               ELSE store
             /\ h' = Respond(w, [h[w] EXCEPT !.log = Logged(w, "SET", key, ok)],
                             Resp(200, JsonType, h[w].up.body))
    /\ UNCHANGED <<mainpc, redisService, pre>>

\* lines 322-341: SET the key (best effort) and the raw body as the answer
rankingsHandler_Set(w) ==
    /\ h[w].pc = "set" /\ h[w].kind = "rankings"
    /\ \E ok \in BOOLEAN :
         /\ store' = IF ok THEN RedisSet(store, h[w].cacheKey, Marshal(Cacheable(h[w].up.body)), OneYear)
                           ELSE store
         /\ h' = Respond(w, [h[w] EXCEPT !.log = Logged(w, "SET", h[w].cacheKey, ok)],
                         Resp(200, JsonType, h[w].up.body))
    /\ UNCHANGED <<mainpc, redisService, pre>>

----------------------------------------------------------------------------
(* preloadRankingsCache: for y := 1900; y <= current; y++                  *)

\* `continue`, or the end of the loop body: y++
NextYear(p, log) == [p EXCEPT !.log = log, !.pc = "start", !.y = p.y + 1]

\* preloadRankingsCache_Exists without the `continue` on an existing key
preloadRankingsCache_Exists_NoSkip ==
    /\ mainpc = "preloadRankings" /\ pre.pc = "start" /\ pre.y <= CurrentYear
    /\ \E ok \in BOOLEAN :
         pre' = [pre EXCEPT !.log = Append(@, ExistsEvent(RankingsKey(Itoa(pre.y)), ok)), !.pc = "fetch"]
    /\ UNCHANGED <<mainpc, redisService, store, h>>

\* preloadRankingsCache_Exists skipping the year when the check returns an error
preloadRankingsCache_Exists_ErrorSkips ==
    /\ mainpc = "preloadRankings" /\ pre.pc = "start" /\ pre.y <= CurrentYear
    /\ LET key == RankingsKey(Itoa(pre.y))
       IN  \E ok \in BOOLEAN :
             LET log == Append(pre.log, ExistsEvent(key, ok))
             IN  IF ~ok \/ key \in DOMAIN store
                 THEN pre' = NextYear(pre, log)
                 ELSE pre' = [pre EXCEPT !.log = log, !.pc = "fetch"]
    /\ UNCHANGED <<mainpc, redisService, store, h>>

\* lines 456-464: the loop test, the key and the existence check
preloadRankingsCache_Exists ==
    /\ mainpc = "preloadRankings" /\ pre.pc = "start" /\ pre.y <= CurrentYear
    /\ LET key == RankingsKey(Itoa(pre.y))
       IN  \E ok \in BOOLEAN :
             LET log == Append(pre.log, ExistsEvent(key, ok))
             IN  IF ok /\ key \in DOMAIN store
                 THEN pre' = NextYear(pre, log)
                 ELSE pre' = [pre EXCEPT !.log = log, !.pc = "fetch"]
    /\ UNCHANGED <<mainpc, redisService, store, h>>

\* preloadRankingsCache_Fetch returning the error instead of continuing
preloadRankingsCache_Fetch_Abort(responses) ==
    /\ mainpc = "preloadRankings" /\ pre.pc = "fetch"
    /\ LET log(ok) == Append(pre.log, Event("HTTP", RankingsURL(Itoa(pre.y)), ok, PreloadRankingsTimeout))
       IN  \/ /\ pre' = [pre EXCEPT !.log = log(FALSE), !.pc = "start"]
              /\ mainpc' = "listen"
           \/ \E u \in responses :
                /\ pre' = [pre EXCEPT !.log = log(TRUE), !.pc = "set", !.up = u]
                /\ mainpc' = mainpc
    /\ UNCHANGED <<redisService, store, h>>

\* preloadRankingsCache_Fetch trying a year again after a failed client.Do
preloadRankingsCache_Fetch_Retry(responses) ==
    /\ mainpc = "preloadRankings" /\ pre.pc = "fetch"
    /\ LET log(ok) == Append(pre.log, Event("HTTP", RankingsURL(Itoa(pre.y)), ok, PreloadRankingsTimeout))
       IN  \/ /\ pre.log[Len(pre.log)].op # "HTTP"
              /\ pre' = [pre EXCEPT !.log = log(FALSE)]
           \/ pre' = NextYear(pre, log(FALSE))
           \/ \E u \in responses :
                pre' = [pre EXCEPT !.log = log(TRUE), !.pc = "set", !.up = u]
    /\ UNCHANGED <<mainpc, redisService, store, h>>

\* lines 466-487: the upstream call
preloadRankingsCache_Fetch(responses) ==
    /\ mainpc = "preloadRankings" /\ pre.pc = "fetch"
    /\ LET log(ok) == Append(pre.log, Event("HTTP", RankingsURL(Itoa(pre.y)), ok, PreloadRankingsTimeout))
       IN  \/ \* client.Do fails: logged, continue
              pre' = NextYear(pre, log(FALSE))
           \/ \* ioutil.ReadAll fails: logged, continue
              pre' = NextYear(pre, log(FALSE))
           \/ \E u \in responses :
                pre' = [pre EXCEPT !.log = log(TRUE), !.pc = "set", !.up = u]
    /\ UNCHANGED <<mainpc, redisService, store, h>>

\* lines 489-505: SET the key; on failure continue, on success sleep 100 ms
preloadRankingsCache_Set ==
    /\ mainpc = "preloadRankings" /\ pre.pc = "set"
    /\ LET key == RankingsKey(Itoa(pre.y))
           log(ok) == Append(pre.log, Event("SET", key, ok, 0))
       IN  \/ /\ store' = store
              /\ pre' = NextYear(pre, log(FALSE))
           \/ /\ store' = RedisSet(store, key, Marshal(Cacheable(pre.up.body)), OneYear)
              /\ pre' = NextYear(pre, Append(log(TRUE), Event("SLEEP", <<>>, TRUE, PreloadSleep)))
    /\ UNCHANGED <<mainpc, redisService, h>>

\* preloadRankingsCache_Return with the loop test `y < current`
preloadRankingsCache_Return_Early ==
    /\ mainpc = "preloadRankings" /\ pre.pc = "start" /\ pre.y >= CurrentYear
    /\ mainpc' = "listen"
    /\ UNCHANGED <<redisService, store, h, pre>>

\* line 506: the loop is over, return nil
preloadRankingsCache_Return ==
    /\ mainpc = "preloadRankings" /\ pre.pc = "start" /\ pre.y > CurrentYear
    /\ mainpc' = "listen"
    /\ UNCHANGED <<redisService, store, h, pre>>

\* the handler has returned; the worker is free for the next request
Return(w) ==
    /\ h[w].pc = "done"
    /\ h' = [h EXCEPT ![w] = Idle]
    /\ UNCHANGED <<mainpc, redisService, store, pre>>

----------------------------------------------------------------------------
(* Specifications                                                          *)

Entry(val, ttl) == [val |-> val, ttl |-> ttl]

\* an empty database
EmptyStore == [k \in {} |-> Entry(NoBytes, 0)]

\* CFB_TEAMS as left by an earlier run, and as left by something else
WarmTeams == Entry(Bytes(EncodeTeams(Simplify(Decode(TeamsBodyA.tree))), "compact"), AgedTTL)
CorruptTeams == Entry(Bytes(ErrorObject.tree, "compact"), AgedTTL)

TeamsStores == {EmptyStore} \cup {[k \in {TeamsKey} |-> e] : e \in {WarmTeams, CorruptTeams}}

InitWith(stores) ==
    /\ mainpc = "start"
    /\ redisService = FALSE
    /\ store \in stores
    /\ h = [w \in Workers |-> Idle]
    /\ pre = PreIdle

\* the rankings preload leaves CFB_TEAMS alone: the teams specification steps over it
preloadRankingsCache_Elided ==
    /\ mainpc = "preloadRankings"
    /\ mainpc' = "listen"
    /\ UNCHANGED <<redisService, store, h, pre>>

InitTeams == InitWith(TeamsStores)

NextTeams ==
    \/ NewRedisService
    \/ preloadTeamsCache_Exists
    \/ preloadTeamsCache_Fetch(TeamsResponses)
    \/ preloadTeamsCache_Set
    \/ preloadRankingsCache_Elided
    \/ ListenAndServe
    \/ Expire
    \/ \E w \in Workers :
         \/ \E y \in RequestYears : teamsHandler_Exists(w, y)
         \/ teamsHandler_Get(w)
         \/ teamsHandler_Fetch(w, TeamsResponses)
         \/ teamsHandler_Set(w)
         \/ Return(w)

SpecTeams == InitTeams /\ [][NextTeams]_vars

\* the teams preload leaves every other key alone: the games and rankings
\* specifications step over it
preloadTeamsCache_Elided ==
    /\ mainpc = "preloadTeams"
    /\ mainpc' = "preloadRankings"
    /\ UNCHANGED <<redisService, store, h, pre>>

\* the team filters a games request may carry ("" stands for none)
GamesTeams == {<<>>, <<"o", "h", " ", "s", "t">>, <<"O", "h", "_", "S", "t">>, <<"o", "s">>}

\* entries left by an earlier run, and by something else
AgedPayload == Entry(Marshal(Decode(PayloadA.tree)), AgedTTL)
CorruptPayload == Entry(Html, AgedTTL)

GamesStores == {EmptyStore} \cup
    {[k \in {GamesKey(<<"o", "h", " ", "s", "t">>, Itoa(CurrentYear))} |-> e] : e \in {AgedPayload, CorruptPayload}}

InitGames == InitWith(GamesStores)

NextGames ==
    \/ NewRedisService
    \/ preloadTeamsCache_Elided
    \/ preloadRankingsCache_Elided
    \/ ListenAndServe
    \/ Expire
    \/ \E w \in {1} :
         \/ \E y \in RequestYears, t \in GamesTeams : gamesHandler_Exists(w, y, t)
         \/ gamesHandler_Get(w)
         \/ gamesHandler_Fetch(w, PayloadResponses)
         \/ gamesHandler_Set(w)
         \/ Return(w)

SpecGames == InitGames /\ [][NextGames]_vars

RankingsStores == {EmptyStore}
    \cup {[k \in {RankingsKey(Itoa(FirstYear))} |-> AgedPayload]}
    \cup {[k \in {RankingsKey(Itoa(CurrentYear))} |-> CorruptPayload]}

InitRankings == InitWith(RankingsStores)

NextRankings ==
    \/ NewRedisService
    \/ preloadTeamsCache_Elided
    \/ preloadRankingsCache_Exists
    \/ preloadRankingsCache_Fetch(PayloadResponses)
    \/ preloadRankingsCache_Set
    \/ preloadRankingsCache_Return
    \/ ListenAndServe
    \/ Expire
    \/ \E w \in {1} :
         \/ \E y \in RequestYears : rankingsHandler_Exists(w, y)
         \/ rankingsHandler_Get(w)
         \/ rankingsHandler_Fetch(w, PayloadResponses)
         \/ rankingsHandler_Set(w)
         \/ Return(w)

SpecRankings == InitRankings /\ [][NextRankings]_vars

\* main runs the preload loop in its own goroutine with nothing to wait
\* for but the calls it makes, each of which returns (the store commands,
\* and the upstream call within its 30 s timeout): every step of the loop
\* that can be taken is taken.
FairRankings ==
    /\ WF_vars(preloadRankingsCache_Exists)
    /\ WF_vars(preloadRankingsCache_Fetch(PayloadResponses))
    /\ WF_vars(preloadRankingsCache_Set)
    /\ WF_vars(preloadRankingsCache_Return)

SpecRankingsFair == SpecRankings /\ FairRankings

\* The whole program with one worker: both preloads and the three handlers,
\* over a narrower choice of upstream answers and team filters.
SomeTeamsResponses == {Resp(200, "application/json", TeamsBodyA), Resp(500, "text/html", Html)}
SomePayloadResponses == {Resp(200, "application/json", PayloadA), Resp(500, "text/html", Html)}
SomeGamesTeams == {<<>>, <<"o", "h", " ", "s", "t">>}

\* a database left by an earlier run
UsedStore ==
    [k \in {TeamsKey, RankingsKey(Itoa(CurrentYear)), GamesKey(<<"o", "h", " ", "s", "t">>, Itoa(CurrentYear))} |->
        IF k = TeamsKey THEN WarmTeams ELSE AgedPayload]

Init == InitWith({EmptyStore, UsedStore})

Next ==
    \/ NewRedisService
    \/ preloadTeamsCache_Exists
    \/ preloadTeamsCache_Fetch(SomeTeamsResponses)
    \/ preloadTeamsCache_Set
    \/ preloadRankingsCache_Exists
    \/ preloadRankingsCache_Fetch(SomePayloadResponses)
    \/ preloadRankingsCache_Set
    \/ preloadRankingsCache_Return
    \/ ListenAndServe
    \/ Expire
    \/ \E w \in {1} :
         \/ \E y \in RequestYears : teamsHandler_Exists(w, y)
         \/ teamsHandler_Get(w)
         \/ teamsHandler_Fetch(w, SomeTeamsResponses)
         \/ teamsHandler_Set(w)
         \/ \E y \in RequestYears, t \in SomeGamesTeams : gamesHandler_Exists(w, y, t)
         \/ gamesHandler_Get(w)
         \/ gamesHandler_Fetch(w, SomePayloadResponses)
         \/ gamesHandler_Set(w)
         \/ \E y \in RequestYears : rankingsHandler_Exists(w, y)
         \/ rankingsHandler_Get(w)
         \/ rankingsHandler_Fetch(w, SomePayloadResponses)
         \/ rankingsHandler_Set(w)
         \/ Return(w)

Spec == Init /\ [][Next]_vars

----------------------------------------------------------------------------
(* Properties of the teams endpoint                                        *)

HttpCalls(log) == Len(SelectSeq(log, LAMBDA e : e.op = "HTTP"))
StoreOps(log) == SelectSeq(log, LAMBDA e : e.op # "HTTP")

\* worker w answered a teams request after EXISTS and GET both went through
\* and CFB_TEAMS held a decodable team array
TeamsHit(w) ==
    /\ h[w].pc = "done" /\ h[w].kind = "teams"
    /\ h[w].got # NoBytes /\ UnmarshalRecords(h[w].got).ok

\* worker w answered a teams request from an upstream body that parsed as records
TeamsMiss(w) ==
    /\ h[w].pc = "done" /\ h[w].kind = "teams"
    /\ h[w].up # NoResp /\ UnmarshalRecords(h[w].up.body).ok

\* C1: with the store answering and CFB_TEAMS holding a decodable team array,
\* a teams request (whatever its year) makes no upstream call, answers 200
\* with the stored list and leaves the store as it found it, so that two
\* requests that find the same entry return byte-identical lists.
C1_WarmTeamsTwice ==
    /\ [](\A w \in Workers : TeamsHit(w) =>
            /\ HttpCalls(h[w].log) = 0
            /\ h[w].resp.status = 200
            /\ Valid(h[w].resp.body)
            /\ Decode(h[w].resp.body.tree) = UnmarshalRecords(h[w].got).v
            /\ \A v \in Workers : (TeamsHit(v) /\ h[v].got = h[w].got) => h[v].resp = h[w].resp)
    /\ [][\A w \in Workers : (h[w].pc = "get" /\ h[w].kind = "teams" /\ TeamsHit(w)')
                                => store' = store]_vars

\* two workers, asked for different years, have both answered from the same entry
C1_Witness ==
    /\ TeamsHit(1) /\ TeamsHit(2)
    /\ h[1].got = h[2].got
    /\ h[1].year # h[2].year
    /\ Len(h[1].got.tree.items) > 0

\* a string field of an upstream record, "" when absent or not a string
StringField(r, k) == IF Has(r, k) /\ Field(r, k).t = "str" THEN Field(r, k).lit ELSE ""

\* id and name of output record o against upstream record r
IdAndNameRule(r, o) ==
    /\ Has(o, "id") /\ Field(o, "id") = (IF Has(r, "id") THEN Field(r, "id") ELSE JNull)
    /\ Has(o, "name")
    /\ StringField(r, "school") # "" => Field(o, "name") = JStr(StringField(r, "school"))
    /\ (StringField(r, "school") = "" /\ Has(r, "name") /\ Field(r, "name").t = "str")
            => Field(o, "name") = Field(r, "name")

\* the alias is school when school is a non-empty string, and is omitted otherwise
AliasRule(r, o) ==
    IF StringField(r, "school") # ""
    THEN Has(o, "school") /\ Field(o, "school") = Field(r, "school")
    ELSE ~Has(o, "school")

\* the alias is school whenever the record has a school, and is omitted when it has none
AliasRuleAsClaimed(r, o) ==
    IF Has(r, "school")
    THEN Has(o, "school") /\ Field(o, "school") = Field(r, "school")
    ELSE ~Has(o, "school")

\* the simplified list `text` against the upstream body it was made from
SimplifiedFrom(body, text, aliasRule(_, _)) ==
    LET raw == UnmarshalRecords(body).v
        out == Decode(text)
    IN  /\ text.t = "arr"
        /\ Len(out.items) = Len(raw.items)
        /\ \A i \in 1..Len(raw.items) :
             /\ out.items[i].t = "obj"
             /\ IdAndNameRule(raw.items[i], out.items[i])
             /\ aliasRule(raw.items[i], out.items[i])

\* the teams preload has just cached the list it made from pre.up
TeamsPreloaded ==
    /\ mainpc = "preloadRankings" /\ pre.log # <<>>
    /\ pre.log[Len(pre.log)] = Event("SET", TeamsKey, TRUE, 0)

\* C9 (amended): one output record per upstream record, in order; id copied;
\* name is school when that is a non-empty string, else name when that is a
\* string; the alias equals school when school is a non-empty string and is
\* omitted otherwise. In the handler's answer and in the preload's entry.
C9_Simplification ==
    /\ \A w \in Workers : TeamsMiss(w) =>
          SimplifiedFrom(h[w].up.body, h[w].resp.body.tree, AliasRule)
    /\ TeamsPreloaded => SimplifiedFrom(pre.up.body, store[TeamsKey].val.tree, AliasRule)

\* C9 as stated: the alias equals school whenever school is present
C9_AsClaimed ==
    /\ \A w \in Workers : TeamsMiss(w) =>
          SimplifiedFrom(h[w].up.body, h[w].resp.body.tree, AliasRuleAsClaimed)
    /\ TeamsPreloaded => SimplifiedFrom(pre.up.body, store[TeamsKey].val.tree, AliasRuleAsClaimed)

\* a handler has simplified the five-record body, whose records have an empty
\* school, a null school, a numeric name, and no fields at all
C9_Witness ==
    \E w \in Workers : TeamsMiss(w) /\ h[w].up.body = TeamsBodyB /\ Len(h[w].resp.body.tree.items) = 5

\* the simplified list for [{"id":57,"school":"Ohio State"},{"id":12,"name":"Fallback U"}],
\* with the mirrored school under the field name `field`
ExpectedTeamsA(field) == JArr(<<
    JObj(<<"id", "name", field>>, <<JNum("57"), JStr("Ohio State"), JStr("Ohio State")>>),
    JObj(<<"id", "name">>, <<JNum("12"), JStr("Fallback U")>>) >>)

\* what the teams endpoint returned, and what the preload cached, for the body above
TeamsAnswerIs(text) ==
    /\ \A w \in Workers : (TeamsMiss(w) /\ h[w].up.body = TeamsBodyA) => h[w].resp.body.tree = text
    /\ (TeamsPreloaded /\ pre.up.body = TeamsBodyA) => store[TeamsKey].val.tree = text

\* worker w's SET went through in this step
Wrote(w) ==
    /\ h[w].pc = "set" /\ h'[w].pc = "done"
    /\ h'[w].log[Len(h'[w].log)].op = "SET" /\ h'[w].log[Len(h'[w].log)].ok

----------------------------------------------------------------------------
(* Properties of the games endpoint                                        *)

\* worker w is serving, or has served, a games request without a team filter
GamesNoTeam(rec) == rec.kind = "games" /\ rec.team = <<>>

\* C3: a games request with no team filter issues no EXISTS, GET or SET, for
\* any year and any store contents; it makes exactly one upstream call, and
\* none of its steps changes the store.
C3_NoTeamNoCache ==
    /\ [](\A w \in Workers : GamesNoTeam(h[w]) =>
            /\ h[w].cacheKey = <<>>
            /\ StoreOps(h[w].log) = <<>>
            /\ h[w].pc = "done" => HttpCalls(h[w].log) = 1
            /\ h[w].pc = "fetch" => HttpCalls(h[w].log) = 0
            /\ h[w].pc \in {"fetch", "done"})
    /\ [][\A w \in Workers : (GamesNoTeam(h'[w]) /\ h'[w] # h[w]) => store' = store]_vars

\* a games request without a team has been answered from upstream while the
\* store was connected and not empty
C3_Witness ==
    \E w \in Workers :
        /\ GamesNoTeam(h[w]) /\ h[w].pc = "done" /\ h[w].resp.status = 200
        /\ h[w].resp.body = PayloadA
        /\ redisService /\ DOMAIN store # {}

\* lower-case and upper-case forms of the letters of the model
CasePairs == {<<"a", "A">>, <<"b", "B">>, <<"h", "H">>, <<"i", "I">>,
              <<"o", "O">>, <<"s", "S">>, <<"t", "T">>, <<"e", "E">>}

\* key is team with every letter upper-cased and every space replaced by an
\* underscore, followed by ":" and year
IsGamesKeyOf(key, team, year) ==
    /\ Len(key) = Len(team) + 1 + Len(year)
    /\ \A i \in 1..Len(team) :
         key[i] = IF team[i] = " " THEN "_"
                  ELSE IF \E p \in CasePairs : p[1] = team[i]
                       THEN (CHOOSE p \in CasePairs : p[1] = team[i])[2]
                       ELSE team[i]
    /\ key[Len(team) + 1] = ":"
    /\ \A i \in 1..Len(year) : key[Len(team) + 1 + i] = year[i]

OhioState == <<"O", "h", "i", "o", " ", "S", "t", "a", "t", "e">>
OhioStateKey2023 == <<"O", "H", "I", "O", "_", "S", "T", "A", "T", "E", ":", "2", "0", "2", "3">>

\* C4: the games cache key of team T and year Y is T upper-cased with every
\* space replaced by an underscore, then ":" and Y ("Ohio State", 2023 gives
\* OHIO_STATE:2023), and the existence check, the read and the write of one
\* request all use that key.
C4_GamesKey ==
    /\ GamesKey(OhioState, Itoa(2023)) = OhioStateKey2023
    /\ \A w \in Workers : (h[w].kind = "games" /\ h[w].team # <<>> /\ redisService) =>
          /\ IsGamesKeyOf(h[w].cacheKey, h[w].team, h[w].year)
          /\ \A i \in 1..Len(h[w].log) :
                h[w].log[i].op # "HTTP" => h[w].log[i].key = h[w].cacheKey

\* one request for a mixed-case team with a space has checked, read and written its key
C4_Witness ==
    \E w \in Workers :
        /\ h[w].kind = "games" /\ h[w].pc = "done"
        /\ h[w].team = <<"o", "h", " ", "s", "t">>
        /\ h[w].cacheKey = <<"O", "H", "_", "S", "T", ":">> \o Itoa(CurrentYear)
        /\ [i \in 1..Len(h[w].log) |-> h[w].log[i].op] = <<"EXISTS", "GET", "HTTP", "SET">>

----------------------------------------------------------------------------
(* Properties of the rankings preload                                      *)

PreloadYears == FirstYear..CurrentYear

\* preloadRankingsCache has returned and the server is not yet listening
RankingsPreloadDone == mainpc = "listen" /\ redisService

\* what the preload did for year y, in order
YearEvents(y) ==
    SelectSeq(pre.log, LAMBDA e : e.key \in {RankingsKey(Itoa(y)), RankingsURL(Itoa(y))})

\* the keys the preload checked, in the order it checked them
CheckedKeys ==
    LET checks == SelectSeq(pre.log, LAMBDA e : e.op = "EXISTS" /\ e.key # TeamsKey)
    IN  [i \in 1..Len(checks) |-> checks[i].key]

\* the RANKINGS:<year> keys in the store
RankingsKeysStored ==
    {k \in DOMAIN store : Len(k) > 9 /\ SubSeq(k, 1, 9) = RankingsKey(<<>>)}

\* no iteration found its key, and every fetch and every write went through
CleanRun ==
    \A i \in 1..Len(pre.log) :
        /\ (pre.log[i].op = "EXISTS" /\ pre.log[i].key # TeamsKey) => ~pre.log[i].present
        /\ pre.log[i].op \in {"HTTP", "SET"} => pre.log[i].ok

\* C5: the rankings preload checks the years 1900..C once each in ascending
\* order; when no key is there at its iteration and every fetch and write
\* succeeds it ends with exactly the keys RANKINGS:1900..RANKINGS:C
\* (C - 1900 + 1 of them); a year whose key the existence check finds gets
\* no upstream call and no write.
C5_PreloadPopulates ==
    /\ mainpc \in {"preloadRankings", "listen"} =>
          /\ Len(CheckedKeys) <= CurrentYear - FirstYear + 1
          /\ \A i \in 1..Len(CheckedKeys) : CheckedKeys[i] = RankingsKey(Itoa(FirstYear + i - 1))
          /\ \A y \in PreloadYears :
                \A i \in 1..Len(YearEvents(y)) :
                   (YearEvents(y)[i].op = "EXISTS" /\ YearEvents(y)[i].ok /\ YearEvents(y)[i].present)
                       => Len(YearEvents(y)) = 1
    /\ RankingsPreloadDone =>
          /\ Len(CheckedKeys) = CurrentYear - FirstYear + 1
          /\ CleanRun =>
                /\ RankingsKeysStored = {RankingsKey(Itoa(y)) : y \in PreloadYears}
                /\ Cardinality(RankingsKeysStored) = CurrentYear - FirstYear + 1
                /\ \A y \in PreloadYears :
                      [i \in 1..Len(YearEvents(y)) |-> YearEvents(y)[i].op] \in
                          {<<"EXISTS", "HTTP", "SET">>, <<"EXISTS", "HTTP", "SET", "SLEEP">>}

\* the preload has returned after fetching and writing every year
C5_Witness ==
    /\ RankingsPreloadDone /\ CleanRun
    /\ Cardinality(RankingsKeysStored) = CurrentYear - FirstYear + 1
    /\ Len(SelectSeq(pre.log, LAMBDA e : e.op = "HTTP" /\ e.ok)) = CurrentYear - FirstYear + 1
    /\ \A k \in RankingsKeysStored : store[k].ttl = OneYear

\* year y's fetch and write both went through
FetchedAndWritten(y) ==
    /\ \E i \in 1..Len(YearEvents(y)) : YearEvents(y)[i].op = "HTTP" /\ YearEvents(y)[i].ok
    /\ \E i \in 1..Len(YearEvents(y)) : YearEvents(y)[i].op = "SET" /\ YearEvents(y)[i].ok

\* year y's fetch or write failed
FailedYear(y) ==
    \E i \in 1..Len(YearEvents(y)) : YearEvents(y)[i].op \in {"HTTP", "SET"} /\ ~YearEvents(y)[i].ok

\* C6: a failed fetch or write for year y does not abort the rankings
\* preload: when it returns, every year up to the current one has been
\* processed, and every year whose own fetch and write succeeded is cached.
C6_PreloadContinues ==
    /\ (mainpc = "preloadRankings" /\ pre.pc = "start") =>
          \A y \in PreloadYears : FailedYear(y) => pre.y > y
    /\ RankingsPreloadDone =>
          \A y \in PreloadYears :
             /\ YearEvents(y) # <<>> /\ YearEvents(y)[1].op = "EXISTS"
             /\ FetchedAndWritten(y) => RankingsKey(Itoa(y)) \in DOMAIN store

\* the preload has returned; the first year's fetch or write failed and the last year is cached
C6_Witness ==
    /\ RankingsPreloadDone
    /\ FailedYear(FirstYear)
    /\ RankingsKey(Itoa(FirstYear)) \notin DOMAIN store
    /\ FetchedAndWritten(CurrentYear)
    /\ RankingsKey(Itoa(CurrentYear)) \in DOMAIN store

----------------------------------------------------------------------------
(* Properties of the rankings endpoint                                     *)

\* worker w answered a rankings request from the entry it read
RankingsHit(w) ==
    /\ h[w].pc = "done" /\ h[w].kind = "rankings"
    /\ h[w].got # NoBytes /\ Unmarshal(h[w].got).ok

\* the preload's SET for the year it is at went through in this step
PreloadWrote ==
    /\ mainpc = "preloadRankings" /\ pre.pc = "set" /\ pre'.y = pre.y + 1
    /\ \E i \in 1..Len(pre'.log) : pre'.log[i] = Event("SET", RankingsKey(Itoa(pre.y)), TRUE, 0)

\* C7: a rankings body x that is valid JSON is cached as the encoding of its
\* decoded value, by the handler and by the preload; a request that finds
\* that entry answers, without an upstream call, with a JSON text whose
\* value is identical to x's: decode(encode(x)) = x.
C7_JsonRoundTrip ==
    /\ [](\A w \in Workers : RankingsHit(w) =>
            \A u \in PayloadResponses :
               (Valid(u.body) /\ h[w].got = Marshal(Decode(u.body.tree))) =>
                  /\ HttpCalls(h[w].log) = 0
                  /\ h[w].resp.status = 200
                  /\ Valid(h[w].resp.body)
                  /\ Decode(h[w].resp.body.tree) = Decode(u.body.tree))
    /\ [][/\ \A w \in Workers : (Wrote(w) /\ h[w].kind = "rankings" /\ Valid(h[w].up.body)) =>
                /\ h[w].cacheKey \in DOMAIN store'
                /\ store'[h[w].cacheKey] = Entry(Marshal(Decode(h[w].up.body.tree)), OneYear)
                /\ Decode(store'[h[w].cacheKey].val.tree) = Decode(h[w].up.body.tree)
          /\ (PreloadWrote /\ Valid(pre.up.body)) =>
                /\ RankingsKey(Itoa(pre.y)) \in DOMAIN store'
                /\ Decode(store'[RankingsKey(Itoa(pre.y))].val.tree) = Decode(pre.up.body.tree)]_vars

\* a request has answered from the entry this process cached for the list
\* body (a float literal, an integer beyond 2^53, an escaped character)
C7_Witness ==
    \E w \in Workers :
        /\ RankingsHit(w)
        /\ h[w].got = Marshal(Decode(PayloadA.tree))
        /\ h[w].cacheKey \in DOMAIN store /\ store[h[w].cacheKey] = Entry(h[w].got, OneYear)
        /\ h[w].resp.body = EncodeIndent(Decode(PayloadA.tree))
        /\ h[w].resp.body.tree # PayloadA.tree

\* C8: a rankings request that finds the entry cached for a body b that is
\* not valid JSON (stored as a string) answers with exactly the bytes b.
C8_RawRoundTrip ==
    \A w \in Workers : RankingsHit(w) =>
        \A u \in PayloadResponses :
           (~Valid(u.body) /\ h[w].got = Marshal(StringOf(u.body))) => h[w].resp.body = u.body

\* a database whose three kinds of entry do not decode: CFB_TEAMS holds an
\* object, the rankings and games keys hold text that is not JSON
CorruptStore ==
    [k \in {TeamsKey, RankingsKey(Itoa(CurrentYear)), GamesKey(<<"o", "h", " ", "s", "t">>, Itoa(CurrentYear))} |->
        IF k = TeamsKey THEN CorruptTeams ELSE CorruptPayload]

InitCorrupt == InitWith({CorruptStore})

SpecCorrupt == InitCorrupt /\ [][Next]_vars

\* Two workers on the rankings endpoint after the real rankings preload,
\* with upstream answering one of two lists.
RaceResponses == {Resp(200, "application/json", PayloadA), Resp(200, "application/json", PayloadB)}

InitRace == InitWith({EmptyStore, [k \in {RankingsKey(Itoa(FirstYear))} |-> AgedPayload]})

NextRace ==
    \/ NewRedisService
    \/ preloadTeamsCache_Elided
    \/ preloadRankingsCache_Exists
    \/ preloadRankingsCache_Fetch(RaceResponses)
    \/ preloadRankingsCache_Set
    \/ preloadRankingsCache_Return
    \/ ListenAndServe
    \/ Expire
    \/ \E w \in Workers :
         \/ \E y \in RequestYears : rankingsHandler_Exists(w, y)
         \/ rankingsHandler_Get(w)
         \/ rankingsHandler_Fetch(w, RaceResponses)
         \/ rankingsHandler_Set(w)
         \/ Return(w)

SpecRace == InitRace /\ [][NextRace]_vars

\* The games and rankings endpoints side by side, one worker, with a team
\* filter that spells the rankings prefix.
KeysTeams == {<<"R", "A", "N", "K", "I", "N", "G", "S">>, <<"o", "h", " ", "s", "t">>}
KeysResponses == {Resp(200, "application/json", PayloadA), Resp(200, "application/json", PayloadB)}

InitKeys == InitWith({EmptyStore, [k \in {RankingsKey(Itoa(CurrentYear))} |-> AgedPayload]})

NextKeys ==
    \/ NewRedisService
    \/ preloadTeamsCache_Elided
    \/ preloadRankingsCache_Elided
    \/ ListenAndServe
    \/ Expire
    \/ \E w \in {1} :
         \/ \E y \in RequestYears, t \in KeysTeams : gamesHandler_Exists(w, y, t)
         \/ gamesHandler_Get(w)
         \/ gamesHandler_Fetch(w, KeysResponses)
         \/ gamesHandler_Set(w)
         \/ \E y \in RequestYears : rankingsHandler_Exists(w, y)
         \/ rankingsHandler_Get(w)
         \/ rankingsHandler_Fetch(w, KeysResponses)
         \/ rankingsHandler_Set(w)
         \/ Return(w)

SpecKeys == InitKeys /\ [][NextKeys]_vars

\* main is one goroutine that runs the startup sequence statement by
\* statement; every call in it returns, so every step of it that can be
\* taken is taken.
FairStartup ==
    /\ WF_vars(NewRedisService)
    /\ WF_vars(preloadTeamsCache_Exists)
    /\ WF_vars(preloadTeamsCache_Fetch(SomeTeamsResponses))
    /\ WF_vars(preloadTeamsCache_Set)
    /\ WF_vars(preloadRankingsCache_Exists)
    /\ WF_vars(preloadRankingsCache_Fetch(SomePayloadResponses))
    /\ WF_vars(preloadRankingsCache_Set)
    /\ WF_vars(preloadRankingsCache_Return)
    /\ WF_vars(ListenAndServe)

SpecFair == Spec /\ FairStartup

----------------------------------------------------------------------------
(* Properties of the whole program                                         *)

\* NewRedisService failed: the global redisService is nil
CachingDisabled == mainpc # "start" /\ ~redisService

\* the answer worker w gave is the one the code makes from the upstream response it got
AnsweredFromUpstream(w) ==
    LET u == h[w].up
    IN  IF h[w].kind = "teams"
        THEN IF UnmarshalRecords(u.body).ok
             THEN /\ h[w].resp.status = 200
                  /\ SimplifiedFrom(u.body, h[w].resp.body.tree, AliasRule)
             ELSE h[w].resp = u
        ELSE h[w].resp = Resp(200, JsonType, u.body)

\* C2: when the store is unreachable at startup, caching stays disabled for
\* the life of the process: neither preload runs, no teams, games or
\* rankings request issues an EXISTS, GET or SET or changes the store, and
\* each request makes exactly one upstream call and is answered from the
\* response whenever that call returns one.
C2_DegradedMode ==
    /\ [](CachingDisabled =>
            /\ mainpc \in {"listen", "serving"}
            /\ pre = PreIdle
            /\ \A w \in Workers :
                 /\ StoreOps(h[w].log) = <<>>
                 /\ h[w].pc \in {"idle", "fetch", "done"}
                 /\ h[w].pc = "fetch" => HttpCalls(h[w].log) = 0
                 /\ h[w].pc = "done" =>
                      /\ HttpCalls(h[w].log) = 1
                      /\ h[w].log[1].ok => (h[w].up # NoResp /\ AnsweredFromUpstream(w)))
    /\ [][CachingDisabled =>
            /\ CachingDisabled'
            /\ h' # h => store' = store]_vars

\* with the store unreachable although it holds entries, a games request with a
\* team filter has been answered from its one upstream call
C2_Witness ==
    /\ CachingDisabled /\ mainpc = "serving"
    /\ TeamsKey \in DOMAIN store
    /\ \E w \in Workers :
         /\ h[w].pc = "done" /\ h[w].kind = "games" /\ h[w].team # <<>>
         /\ h[w].resp = Resp(200, JsonType, PayloadA)
         /\ HttpCalls(h[w].log) = 1

----------------------------------------------------------------------------
(* Properties of the teams key                                             *)

\* worker w fetched the list for its year, cached it and answered with it
TeamsPopulated(w) ==
    /\ TeamsMiss(w)
    /\ h[w].log[Len(h[w].log)] = Event("SET", TeamsKey, TRUE, 0)

\* C11: the teams cache is the one key CFB_TEAMS whatever the year: every
\* store command of a teams request names it and no other key is written;
\* a request for any year that finds the entry a request for year Y1
\* populated answers with the list fetched for Y1 and makes no upstream call.
C11_SingleTeamsKey ==
    /\ DOMAIN store \subseteq {TeamsKey}
    /\ \A w \in Workers : h[w].kind = "teams" =>
          \A i \in 1..Len(h[w].log) :
             h[w].log[i].op \in {"EXISTS", "GET", "SET"} => h[w].log[i].key = TeamsKey
    /\ \A w, v \in Workers :
          (TeamsPopulated(w) /\ TeamsHit(v) /\ h[v].got = Bytes(h[w].resp.body.tree, "compact")) =>
             /\ HttpCalls(h[v].log) = 0
             /\ h[v].resp = h[w].resp

\* one worker populated CFB_TEAMS for the first year; the other, asked for the
\* current year, has answered from that entry with the first year's list
C11_Witness ==
    \E w, v \in Workers :
        /\ TeamsPopulated(w) /\ h[w].year = Itoa(FirstYear) /\ h[w].up.body = TeamsBodyB
        /\ TeamsHit(v) /\ h[v].year = Itoa(CurrentYear)
        /\ h[v].got = Bytes(h[w].resp.body.tree, "compact")
        /\ h[v].resp = h[w].resp
        /\ HttpCalls(h[v].log) = 0

----------------------------------------------------------------------------
(* Properties of upstream failures                                         *)

\* the upstream answered with a 2xx status
Is2xx(u) == u.status \in 200..299

\* the log ends with a write that went through
EndsWithWrite(log) ==
    /\ log # <<>>
    /\ \/ log[Len(log)].op = "SET" /\ log[Len(log)].ok
       \/ log[Len(log)].op = "SLEEP"

\* C12: when the upstream answers with a non-2xx status, or with a body
\* that is not of the expected structure, no handler and no preload writes
\* to the store.
C12_NothingCachedOnBadUpstream ==
    /\ \A w \in Workers :
          (h[w].pc = "done" /\ h[w].up # NoResp /\ EndsWithWrite(h[w].log)) =>
             /\ Is2xx(h[w].up)
             /\ h[w].kind = "teams" => UnmarshalRecords(h[w].up.body).ok
             /\ h[w].kind # "teams" => Valid(h[w].up.body)
    /\ (mainpc \in {"preloadTeams", "preloadRankings", "listen"}
            /\ pre.up # NoResp /\ pre.pc = "start" /\ EndsWithWrite(pre.log)) =>
          /\ Is2xx(pre.up)
          /\ Valid(pre.up.body)

\* C13: when the upstream answers with a non-2xx status, the handler
\* forwards the raw upstream body with the upstream's status code.
C13_StatusForwarded ==
    \A w \in Workers :
        (h[w].pc = "done" /\ h[w].up # NoResp /\ ~Is2xx(h[w].up)) =>
           /\ h[w].resp.body = h[w].up.body
           /\ h[w].resp.status = h[w].up.status

\* worker w's upstream call failed: client.Do or the read of the body returned an error
UpstreamFailed(rec) ==
    /\ rec.pc = "done"
    /\ rec.log # <<>>
    /\ rec.log[Len(rec.log)].op = "HTTP" /\ ~rec.log[Len(rec.log)].ok

\* the request made one upstream attempt, wrote nothing and answered with one of `codes`
FailedWith(rec, codes) ==
    /\ HttpCalls(rec.log) = 1
    /\ \A i \in 1..Len(rec.log) : rec.log[i].op # "SET"
    /\ rec.up = NoResp
    /\ \E c \in codes : rec.resp = HttpError(c)

TeamsUnparsed(rec) ==
    /\ rec.pc = "done" /\ rec.kind = "teams"
    /\ rec.up # NoResp /\ ~UnmarshalRecords(rec.up.body).ok

\* C15: a teams request that goes upstream and gets a body that does not
\* parse as an array of records answers with the upstream's status,
\* content type and raw body, issues no SET, and leaves CFB_TEAMS as it
\* was (absent or unchanged).
C15_TeamsPassThrough ==
    /\ [](\A w \in Workers : TeamsUnparsed(h[w]) =>
            /\ h[w].resp = Resp(h[w].up.status, h[w].up.ctype, h[w].up.body)
            /\ HttpCalls(h[w].log) = 1
            /\ \A i \in 1..Len(h[w].log) : h[w].log[i].op # "SET")
    /\ [][\A w \in Workers : (h[w].pc = "fetch" /\ TeamsUnparsed(h'[w])) => store' = store]_vars

\* with the store connected and CFB_TEAMS absent, the 401 error object was passed through
C15_Witness ==
    \E w \in Workers :
        /\ TeamsUnparsed(h[w])
        /\ h[w].resp = Resp(401, "application/json", ErrorObject)
        /\ redisService /\ TeamsKey \notin DOMAIN store
        /\ h[w].log[1] = [ExistsEvent(TeamsKey, TRUE) EXCEPT !.present = FALSE]

----------------------------------------------------------------------------
(* Properties of store failures                                            *)

\* an EXISTS, GET or SET in the log returned an error
StoreFailed(log) ==
    \E i \in 1..Len(log) : log[i].op \in {"EXISTS", "GET", "SET"} /\ ~log[i].ok

\* C16: once a store failure has been detected, at startup or in an EXISTS,
\* GET or SET of a request, no later request performs a cache read or
\* write: a request that arrives after another has finished with a failed
\* store command, or after the startup ping failed, issues no store command.
C16_CachingDisabledAfterFailure ==
    [][\A v \in Workers :
          (/\ h[v].pc = "idle" /\ h'[v].pc # "idle"
           /\ \/ ~redisService
              \/ \E w \in Workers \ {v} : h[w].pc = "done" /\ StoreFailed(h[w].log))
          => StoreOps(h'[v].log) = <<>>]_vars

\* the value the request read did not decode into the shape its handler expects
DecodeFailed(rec) ==
    /\ rec.got # NoBytes
    /\ IF rec.kind = "teams" THEN ~UnmarshalRecords(rec.got).ok ELSE ~Unmarshal(rec.got).ok

\* C17: when the key exists but its value fails to decode, the handler
\* does not fail the request: it goes on to exactly one upstream call and
\* answers from the response when the call returns one.
C17_DecodeFailureFallsThrough ==
    \A w \in Workers : DecodeFailed(h[w]) =>
        /\ h[w].pc \in {"fetch", "set", "done"}
        /\ h[w].pc = "fetch" => HttpCalls(h[w].log) = 0
        /\ h[w].pc \in {"set", "done"} => HttpCalls(h[w].log) = 1
        /\ h[w].pc = "done" =>
             IF h[w].up # NoResp THEN AnsweredFromUpstream(w) ELSE UpstreamFailed(h[w])

\* a rankings request read the entry that is not JSON and answered with the upstream list
C17_Witness ==
    \E w \in Workers :
        /\ DecodeFailed(h[w]) /\ h[w].pc = "done" /\ h[w].kind = "rankings"
        /\ h[w].got = Html
        /\ h[w].resp = Resp(200, JsonType, PayloadA)
        /\ HttpCalls(h[w].log) = 1

\* the key a request reads and writes
KeyOf(rec) == IF rec.kind = "teams" THEN TeamsKey ELSE rec.cacheKey

\* the stored text decodes into the shape the handler of `kind` expects
Decodes(kind, val) == IF kind = "teams" THEN UnmarshalRecords(val).ok ELSE Unmarshal(val).ok

\* C18 (amended): after a decode failure the handler never deletes the
\* entry; it leaves it in place when the upstream call fails, when the
\* body is not cacheable (teams: not an array of records) or when the SET
\* fails, and otherwise overwrites it with the freshly fetched value and a
\* one-year TTL, a value that decodes, so that later requests hit.
C18_CorruptEntryReplaced ==
    [][\A w \in Workers : (DecodeFailed(h[w]) /\ h'[w] # h[w]) =>
          /\ DOMAIN store \subseteq DOMAIN store'
          /\ IF Wrote(w)
             THEN /\ \A k \in DOMAIN store \ {KeyOf(h[w])} : store'[k] = store[k]
                  /\ store'[KeyOf(h[w])].ttl = OneYear
                  /\ store'[KeyOf(h[w])].val # h[w].got
                  /\ Decodes(h[w].kind, store'[KeyOf(h[w])].val)
             ELSE store' = store]_vars

\* C18 as stated: after a decode failure the handler neither deletes nor
\* overwrites the entry
C18_AsClaimed ==
    [][\A w \in Workers : (DecodeFailed(h[w]) /\ h'[w] # h[w]) => store' = store]_vars

\* a teams request read the corrupt CFB_TEAMS, fetched the list and overwrote the entry
C18_Witness ==
    \E w \in Workers :
        /\ DecodeFailed(h[w]) /\ h[w].pc = "done" /\ h[w].kind = "teams"
        /\ h[w].got = CorruptTeams.val
        /\ h[w].log[Len(h[w].log)] = Event("SET", TeamsKey, TRUE, 0)
        /\ TeamsKey \in DOMAIN store
        /\ store[TeamsKey] = Entry(Bytes(h[w].resp.body.tree, "compact"), OneYear)

----------------------------------------------------------------------------
(* Properties of concurrent requests                                       *)

\* the request's existence check did not find its key
Missed(rec) ==
    /\ rec.log # <<>> /\ rec.log[1].op = "EXISTS"
    /\ ~(rec.log[1].ok /\ rec.log[1].present)

\* the request's last step was a SET that went through
WroteLast(rec) ==
    rec.log # <<>> /\ rec.log[Len(rec.log)] = Event("SET", rec.cacheKey, TRUE, 0)

\* what a rankings or games request writes for the body it fetched
Written(rec) == Entry(Marshal(Cacheable(rec.up.body)), OneYear)

\* C19: two rankings requests that both miss on the same key each make
\* their own upstream call and each issue their own SET; neither fails (each
\* answers 200 with the body it fetched); every SET replaces the entry with
\* the writer's whole value, so the value finally stored is that of one of
\* the two writers, the one whose write landed last.
C19_ConcurrentMisses ==
    /\ [](\A w, v \in Workers :
            (/\ w # v /\ h[w].pc = "done" /\ h[v].pc = "done"
             /\ h[w].cacheKey = h[v].cacheKey
             /\ Missed(h[w]) /\ Missed(h[v])
             /\ h[w].up # NoResp /\ h[v].up # NoResp) =>
               /\ HttpCalls(h[w].log) = 1 /\ HttpCalls(h[v].log) = 1
               /\ h[w].log[Len(h[w].log)].op = "SET" /\ h[v].log[Len(h[v].log)].op = "SET"
               /\ h[w].resp = Resp(200, JsonType, h[w].up.body)
               /\ h[v].resp = Resp(200, JsonType, h[v].up.body)
               /\ (WroteLast(h[w]) /\ WroteLast(h[v]) /\ h[w].cacheKey \in DOMAIN store) =>
                     store[h[w].cacheKey] \in {Written(h[w]), Written(h[v])})
    /\ [][\A w \in Workers : Wrote(w) =>
            store' = RedisSet(store, h[w].cacheKey, Written(h[w]).val, OneYear)]_vars

\* both workers missed on the same key, fetched different lists and wrote;
\* the key holds the second worker's list
C19_Witness ==
    /\ h[1].pc = "done" /\ h[2].pc = "done"
    /\ h[1].cacheKey = h[2].cacheKey
    /\ Missed(h[1]) /\ Missed(h[2]) /\ h[1].log[1].ok /\ h[2].log[1].ok
    /\ h[1].up.body = PayloadA /\ h[2].up.body = PayloadB
    /\ WroteLast(h[1]) /\ WroteLast(h[2])
    /\ h[1].cacheKey \in DOMAIN store
    /\ store[h[1].cacheKey] = Written(h[2])

\* the existence check of the year the preload is writing returned an error
PreloadCheckFailed ==
    /\ Len(pre.log) >= 2
    /\ pre.log[Len(pre.log) - 1].op = "EXISTS" /\ ~pre.log[Len(pre.log) - 1].ok

\* C20 (amended): the preload never races with a request handler (no
\* request is served before it has returned) and overwrites a key only
\* when its own existence check returned an error; a request handler does
\* overwrite a key written since its own lookup: an entry otherwise changes
\* only by the SET of a request that had not read it, and then it becomes
\* that request's whole value (last writer wins, no merge).
C20_LastWriterWins ==
    /\ [](mainpc # "serving" => \A w \in Workers : h[w] = Idle)
    /\ [][\A k \in DOMAIN store \cap DOMAIN store' :
             store'[k] # store[k] =>
                \/ /\ PreloadWrote /\ PreloadCheckFailed
                   /\ k = RankingsKey(Itoa(pre.y))
                   /\ store'[k] = Entry(Marshal(Cacheable(pre.up.body)), OneYear)
                \/ \E w \in Workers :
                      /\ Wrote(w) /\ h[w].cacheKey = k /\ h[w].got = NoBytes
                      /\ store'[k] = Written(h[w])]_vars

\* C20 as stated: a key, once written, is not overwritten
C20_AsClaimed ==
    [][\A k \in DOMAIN store \cap DOMAIN store' : store'[k] = store[k]]_vars

\* the second worker cached the first list; the first worker, whose lookup
\* had found no key, then replaced it with the empty list
C20_Witness ==
    /\ mainpc = "serving"
    /\ h[1].pc = "done" /\ h[2].pc = "done" /\ h[1].cacheKey = h[2].cacheKey
    /\ h[2].up.body = PayloadA /\ WroteLast(h[2])
    /\ h[1].up.body = PayloadB /\ WroteLast(h[1])
    /\ h[1].log[1] = [ExistsEvent(h[1].cacheKey, TRUE) EXCEPT !.present = FALSE]
    /\ h[1].cacheKey \in DOMAIN store
    /\ store[h[1].cacheKey] = Written(h[1])
    /\ Written(h[1]) # Written(h[2])

----------------------------------------------------------------------------
(* Properties of startup                                                   *)

\* main is inside preloadTeamsCache or preloadRankingsCache
PreloadInProgress == mainpc \in {"preloadTeams", "preloadRankings"}

\* C21 (amended): the startup preloader never overlaps with a live
\* request: while a preload is in progress no handler has started, a
\* handler step happens only once the server is listening, and a preload
\* step happens only while every worker is idle.
C21_PreloadBeforeServing ==
    /\ [](PreloadInProgress => \A w \in Workers : h[w] = Idle)
    /\ [][(h' # h) => (mainpc = "serving" /\ mainpc' = "serving" /\ pre' = pre)]_vars
    /\ [][(pre' # pre) => (h' = h /\ \A w \in Workers : h[w] = Idle)]_vars

\* C21 as stated: there is no barrier, a request handler can start while a
\* preload is in progress
C21_AsClaimed ==
    PreloadInProgress =>
        ENABLED (\E w \in Workers, y \in RequestYears : rankingsHandler_Exists(w, y))

\* the first year's key is not there although the preload has run; a
\* request for it, served after the preload returned, fetched and cached it
C21_Witness ==
    /\ mainpc = "serving" /\ redisService
    /\ \E w \in Workers :
         /\ h[w].pc = "done" /\ h[w].kind = "rankings" /\ h[w].year = Itoa(FirstYear)
         /\ h[w].log[1] = [ExistsEvent(h[w].cacheKey, TRUE) EXCEPT !.present = FALSE]
         /\ WroteLast(h[w])
         /\ h[w].cacheKey \in DOMAIN store /\ store[h[w].cacheKey] = Written(h[w])

\* the position of main, in program order
Stage(pc) ==
    CASE pc = "start" -> 0
      [] pc = "preloadTeams" -> 1
      [] pc = "preloadRankings" -> 2
      [] pc = "listen" -> 3
      [] pc = "serving" -> 4

\* the log holds an event of the rankings preload
RankingsEvents(log) ==
    SelectSeq(log, LAMBDA e : e.op = "SLEEP" \/ (e.key # TeamsKey /\ e.key # TeamsURL(Itoa(CurrentYear))))

\* C22: each preload runs at most once, at startup, the teams preload
\* before the rankings preload, and only if the store was reachable: main
\* only moves forward through start, teams preload, rankings preload,
\* listen; it is inside a preload only with a connected store; after a
\* failed ping it goes straight to listen; and no preload step happens once
\* the server is listening.
C22_PreloadOnce ==
    /\ [](PreloadInProgress => redisService)
    /\ [](mainpc = "preloadTeams" => RankingsEvents(pre.log) = <<>>)
    /\ [](Len(SelectSeq(pre.log, LAMBDA e : e.op = "EXISTS" /\ e.key = TeamsKey)) <= 1)
    /\ [][/\ Stage(mainpc) <= Stage(mainpc')
          /\ (mainpc = "start" /\ mainpc' # "start") =>
                mainpc' = (IF redisService' THEN "preloadTeams" ELSE "listen")
          /\ (mainpc = "preloadTeams" /\ mainpc' # mainpc) => mainpc' = "preloadRankings"
          /\ (mainpc = "preloadRankings" /\ mainpc' # mainpc) => mainpc' = "listen"
          /\ (pre' # pre /\ ~PreloadInProgress) => (mainpc = "listen" /\ pre' = PreIdle)]_vars

\* the rankings preload is at its last year after the teams preload fetched and cached the list
C22_Witness ==
    /\ mainpc = "preloadRankings" /\ redisService /\ pre.y = CurrentYear /\ pre.pc = "set"
    /\ Len(pre.log) > 3
    /\ [i \in 1..3 |-> pre.log[i].op] = <<"EXISTS", "HTTP", "SET">>
    /\ pre.log[1].key = TeamsKey /\ pre.log[3] = Event("SET", TeamsKey, TRUE, 0)
    /\ RankingsEvents(pre.log) # <<>>

----------------------------------------------------------------------------
(* Properties of the teams preload                                         *)

\* the teams preload's existence check found CFB_TEAMS
TeamsPreloadFound(log) ==
    /\ log # <<>>
    /\ log[1].op = "EXISTS" /\ log[1].key = TeamsKey /\ log[1].ok /\ log[1].present

\* C23: when its existence check finds CFB_TEAMS the teams preload does
\* nothing more: no upstream call, no SET, and the step leaves the store,
\* the value and its expiry included, as it was.
C23_TeamsPreloadNoOp ==
    /\ []((mainpc = "preloadRankings" /\ TeamsPreloadFound(pre.log)) =>
            \A i \in 2..Len(pre.log) : pre.log[i].key \notin {TeamsKey, TeamsURL(Itoa(CurrentYear))})
    /\ []((mainpc = "preloadTeams" /\ pre.log # <<>>) => ~TeamsPreloadFound(pre.log))
    /\ [][(mainpc = "preloadTeams" /\ TeamsPreloadFound(pre'.log)) =>
            (store' = store /\ mainpc' = "preloadRankings")]_vars

\* the teams preload has returned on finding the list an earlier run left,
\* which is still there with the expiry it had
C23_Witness ==
    /\ mainpc = "preloadRankings"
    /\ pre.log = <<[ExistsEvent(TeamsKey, TRUE) EXCEPT !.present = TRUE]>>
    /\ TeamsKey \in DOMAIN store /\ store[TeamsKey] = WarmTeams

----------------------------------------------------------------------------
(* Preload against the on-demand path                                      *)

\* the CFB_TEAMS entry made from an upstream body that parses as records
TeamsEntryFor(body) ==
    Entry(Bytes(EncodeTeams(Simplify(UnmarshalRecords(body).v)), "compact"), OneYear)

\* the RANKINGS entry made from an upstream body: the decoded structure, or the raw string
RankingsEntryFor(body) == Entry(Marshal(Cacheable(body)), OneYear)

\* the teams preload's SET went through in this step
TeamsPreloadWrote ==
    /\ mainpc = "preloadTeams" /\ pre.pc = "set"
    /\ pre'.log[Len(pre'.log)] = Event("SET", TeamsKey, TRUE, 0)

\* C24: the preloads and the on-demand requests write the same thing for
\* the same upstream response. A step of the teams preload or of a teams
\* request either leaves the store alone (the fetch failed, the body did
\* not parse, the SET failed) or sets CFB_TEAMS to the same function of the
\* body, with the one-year TTL; a step of the rankings preload for year Y
\* or of a rankings request for Y either leaves the store alone or sets
\* RANKINGS:Y to the same function of the body (decoded structure, or raw
\* string). Both fetch the teams of the current year from the same URL.
C24_PreloadAsOnDemand ==
    /\ [][/\ (mainpc = "preloadTeams" /\ pre' # pre) =>
                store' = (IF TeamsPreloadWrote
                          THEN RedisSet(store, TeamsKey, TeamsEntryFor(pre.up.body).val, OneYear)
                          ELSE store)
          /\ (mainpc = "preloadRankings" /\ pre' # pre) =>
                store' = (IF PreloadWrote
                          THEN RedisSet(store, RankingsKey(Itoa(pre.y)), RankingsEntryFor(pre.up.body).val, OneYear)
                          ELSE store)
          /\ \A w \in Workers : (h'[w] # h[w] /\ h'[w].kind = "teams") =>
                store' = (IF Wrote(w)
                          THEN RedisSet(store, TeamsKey, TeamsEntryFor(h[w].up.body).val, OneYear)
                          ELSE store)
          /\ \A w \in Workers : (h'[w] # h[w] /\ h'[w].kind = "rankings") =>
                store' = (IF Wrote(w)
                          THEN RedisSet(store, RankingsKey(h[w].year), RankingsEntryFor(h[w].up.body).val, OneYear)
                          ELSE store)]_vars
    /\ [](\A i \in 1..Len(pre.log) :
             (pre.log[i].op = "HTTP" /\ RankingsEvents(<<pre.log[i]>>) = <<>>) =>
                 pre.log[i].key = TeamsURL(YearOrDefault(<<>>)))

\* the preload cached the first year's rankings and a request then cached
\* the current year's, from the same upstream list: the two entries are equal
C24_Witness ==
    /\ mainpc = "serving"
    /\ \E w \in Workers :
         /\ h[w].pc = "done" /\ h[w].kind = "rankings" /\ h[w].year = Itoa(CurrentYear)
         /\ Missed(h[w]) /\ WroteLast(h[w]) /\ h[w].up.body = PayloadA
         /\ {RankingsKey(Itoa(FirstYear)), RankingsKey(Itoa(CurrentYear))} \subseteq DOMAIN store
         /\ store[RankingsKey(Itoa(CurrentYear))] = RankingsEntryFor(PayloadA)
         /\ store[RankingsKey(Itoa(FirstYear))] = store[RankingsKey(Itoa(CurrentYear))]

----------------------------------------------------------------------------
(* Properties of the rankings preload's pacing                             *)

\* C25: in the rankings preload there is a 100 ms delay between any two
\* consecutive upstream calls, whether the earlier iteration's fetch and
\* write succeeded or failed.
C25_DelayBetweenCalls ==
    \A i, j \in 1..Len(pre.log) :
        (i < j /\ pre.log[i].op = "HTTP" /\ pre.log[j].op = "HTTP"
               /\ RankingsEvents(<<pre.log[i]>>) # <<>>) =>
            \E k \in (i + 1)..(j - 1) :
                pre.log[k] = Event("SLEEP", <<>>, TRUE, PreloadSleep)

----------------------------------------------------------------------------
(* Properties of upstream calls                                            *)

\* the upstream calls in the log that went to url
CallsTo(log, url) == Len(SelectSeq(log, LAMBDA e : e.op = "HTTP" /\ e.key = url))

\* the request answered from the entry it read
AnsweredFromCache(rec) == rec.got # NoBytes /\ Decodes(rec.kind, rec.got)

\* C26: no retries. A handler invocation makes at most one upstream call:
\* none when it answers from the cache, exactly one otherwise (a miss, or
\* caching disabled); the teams preload makes at most one, and the rankings
\* preload at most one per year.
C26_NoRetries ==
    /\ \A w \in Workers :
          /\ HttpCalls(h[w].log) <= 1
          /\ h[w].pc = "done" =>
                HttpCalls(h[w].log) = (IF AnsweredFromCache(h[w]) THEN 0 ELSE 1)
    /\ CallsTo(pre.log, TeamsURL(Itoa(CurrentYear))) <= 1
    /\ \A y \in PreloadYears : CallsTo(pre.log, RankingsURL(Itoa(y))) <= 1
    /\ HttpCalls(pre.log) <= 1 + (CurrentYear - FirstYear + 1)

\* the rankings preload has returned after the call for every year failed,
\* having made one call per year
C26_Witness ==
    /\ mainpc = "listen" /\ redisService
    /\ \A y \in PreloadYears :
          /\ CallsTo(pre.log, RankingsURL(Itoa(y))) = 1
          /\ \E i \in 1..Len(pre.log) :
                pre.log[i] = Event("HTTP", RankingsURL(Itoa(y)), FALSE, PreloadRankingsTimeout)

----------------------------------------------------------------------------
(* Properties of entry lifetime                                            *)

\* C27: every entry a handler or a preload writes carries the one-year
\* TTL, and no handler or preload removes a key: a key leaves the store
\* only in a step that is its expiry, one key at a time, in which neither
\* main, a preload nor a handler moves.
C27_OneYearNoDelete ==
    [][/\ \A k \in DOMAIN store' :
             (k \notin DOMAIN store \/ store'[k] # store[k]) => store'[k].ttl = OneYear
       /\ (h' # h \/ pre' # pre \/ mainpc' # mainpc) => DOMAIN store \subseteq DOMAIN store'
       /\ ~(DOMAIN store \subseteq DOMAIN store') =>
             \E k \in DOMAIN store : store' = RedisDrop(store, k)]_vars

\* starting from an empty store, the teams list, a year of rankings and a
\* team's games are cached, each with a year to live
C27_Witness ==
    /\ mainpc = "serving"
    /\ {TeamsKey, RankingsKey(Itoa(FirstYear)),
        GamesKey(<<"o", "h", " ", "s", "t">>, Itoa(FirstYear))} \subseteq DOMAIN store
    /\ \A k \in DOMAIN store : store[k].ttl = OneYear
    /\ \E w \in Workers : h[w].kind = "games" /\ WroteLast(h[w]) /\ h[w].year = Itoa(FirstYear)

----------------------------------------------------------------------------
(* Properties of games and rankings hits                                   *)

\* a games or rankings request
PayloadRequest(rec) == rec.kind \in {"games", "rankings"}

\* C28: a games request with a team filter, or a rankings request, whose
\* key exists and decodes answers 200 with the cached value, makes no
\* upstream call and issues no SET; its lookup steps leave the store as it
\* was, the entry's value and remaining TTL included.
C28_HitLeavesStore ==
    /\ [](\A w \in Workers :
            (PayloadRequest(h[w]) /\ h[w].pc = "done" /\ AnsweredFromCache(h[w])) =>
               /\ h[w].cacheKey # <<>>
               /\ h[w].kind = "games" => h[w].team # <<>>
               /\ [i \in 1..Len(h[w].log) |-> h[w].log[i].op] = <<"EXISTS", "GET">>
               /\ h[w].resp.status = 200 /\ h[w].resp.ctype = JsonType
               /\ Decode(h[w].resp.body.tree) = Unmarshal(h[w].got).v)
    /\ [][\A w \in Workers :
            (PayloadRequest(h'[w]) /\ h'[w] # h[w] /\ h[w].pc \in {"idle", "get"}) =>
               store' = store]_vars

\* a games request for a team answered from the entry an earlier run left,
\* which still has the time to live it had
C28_Witness ==
    \E w \in Workers :
        /\ h[w].kind = "games" /\ h[w].pc = "done" /\ AnsweredFromCache(h[w])
        /\ h[w].team = <<"o", "h", " ", "s", "t">>
        /\ h[w].cacheKey \in DOMAIN store
        /\ store[h[w].cacheKey] = AgedPayload
        /\ h[w].got = AgedPayload.val
        /\ h[w].resp.body = EncodeIndent(Unmarshal(AgedPayload.val).v)

----------------------------------------------------------------------------
(* Properties of games and rankings misses                                 *)

\* the SET commands in the log
Sets(log) == SelectSeq(log, LAMBDA e : e.op = "SET")

\* the value cached for a body: its decoded structure if it is JSON, else the raw string
CachedForm(body) == Marshal(IF Valid(body) THEN Decode(body.tree) ELSE StringOf(body))

\* C29: a games request with a team filter that, with caching enabled, did
\* not answer from the cache and got an upstream response issues exactly
\* one SET, on the key computed from team and year; when the SET goes
\* through the key holds the decoded structure of a JSON body and the raw
\* string of any other, and when it fails the store is untouched; either
\* way the response body is the raw upstream body.
C29_GamesMissWrite ==
    /\ [](\A w \in Workers :
            (h[w].kind = "games" /\ h[w].pc = "done" /\ h[w].cacheKey # <<>> /\ h[w].up # NoResp) =>
               /\ ~AnsweredFromCache(h[w])
               /\ Len(Sets(h[w].log)) = 1
               /\ Sets(h[w].log)[1].key = GamesKey(h[w].team, h[w].year)
               /\ h[w].log[Len(h[w].log)].op = "SET"
               /\ h[w].resp.body = h[w].up.body)
    /\ [][\A w \in Workers :
            (h[w].kind = "games" /\ h[w].pc = "set" /\ h'[w] # h[w]) =>
               /\ h'[w].pc = "done"
               /\ store' = (IF h'[w].log[Len(h'[w].log)].ok
                            THEN RedisSet(store, h[w].cacheKey, CachedForm(h[w].up.body), OneYear)
                            ELSE store)]_vars

\* the upstream answered a games request for a team with a page that is not
\* JSON; the SET failed and the page is the response body
C29_Witness ==
    \E w \in Workers :
        /\ h[w].kind = "games" /\ h[w].pc = "done" /\ h[w].team # <<>>
        /\ h[w].up.body = Html /\ h[w].resp.body = Html
        /\ h[w].log[Len(h[w].log)] = Event("SET", h[w].cacheKey, FALSE, 0)
        /\ h[w].cacheKey \notin DOMAIN store

\* C30: with caching enabled, a rankings request that did not answer from
\* the cache and got an upstream response issues exactly one SET, on
\* RANKINGS:<year> of the year asked for; every store command of the
\* request names that key and its SET step changes no other key; whether
\* the SET succeeded or failed the caller gets 200 with the upstream body.
C30_RankingsMissWrite ==
    /\ [](\A w \in Workers :
            (h[w].kind = "rankings" /\ h[w].pc = "done" /\ redisService /\ h[w].up # NoResp) =>
               /\ ~AnsweredFromCache(h[w])
               /\ Len(Sets(h[w].log)) = 1
               /\ \A i \in 1..Len(StoreOps(h[w].log)) :
                     StoreOps(h[w].log)[i].key = RankingsKey(h[w].year)
               /\ h[w].resp = Resp(200, JsonType, h[w].up.body))
    /\ [][\A w \in Workers :
            (h[w].kind = "rankings" /\ h[w].pc = "set" /\ h'[w] # h[w]) =>
               /\ h'[w].pc = "done"
               /\ DOMAIN store' \subseteq DOMAIN store \cup {RankingsKey(h[w].year)}
               /\ \A k \in DOMAIN store \ {RankingsKey(h[w].year)} :
                     k \in DOMAIN store' /\ store'[k] = store[k]
               /\ ~h'[w].log[Len(h'[w].log)].ok => store' = store]_vars

\* a request for the first year fetched the list while another year's key
\* was cached; its SET failed and it answered 200 with the list
C30_Witness ==
    \E w \in Workers :
        /\ h[w].kind = "rankings" /\ h[w].pc = "done" /\ h[w].year = Itoa(FirstYear)
        /\ h[w].log[Len(h[w].log)] = Event("SET", RankingsKey(Itoa(FirstYear)), FALSE, 0)
        /\ h[w].resp = Resp(200, JsonType, PayloadA)
        /\ RankingsKey(Itoa(FirstYear)) \notin DOMAIN store
        /\ RankingsKey(Itoa(CurrentYear)) \in DOMAIN store

----------------------------------------------------------------------------
(* Properties of timeouts                                                  *)

\* the upstream calls in the log
Calls(log) == SelectSeq(log, LAMBDA e : e.op = "HTTP")

\* C31: every on-demand upstream call has a 10 second timeout and every
\* preload upstream call, of the teams preload and of the rankings preload,
\* a 30 second timeout.
C31_Timeouts ==
    /\ \A w \in Workers : \A i \in 1..Len(Calls(h[w].log)) : Calls(h[w].log)[i].timeout = 10
    /\ \A i \in 1..Len(Calls(pre.log)) : Calls(pre.log)[i].timeout = 30

----------------------------------------------------------------------------
(* Properties of the key spaces                                            *)

\* a key of the rankings resource
IsRankingsKey(k) == Len(k) >= 9 /\ SubSeq(k, 1, 9) = RankingsKey(<<>>)

\* C32: the key spaces are disjoint: no store command of a games request,
\* for any team filter and year, names CFB_TEAMS or a key RANKINGS:<year>.
C32_DisjointKeySpaces ==
    \A w \in Workers : h[w].kind = "games" =>
        \A i \in 1..Len(StoreOps(h[w].log)) :
            /\ StoreOps(h[w].log)[i].key # TeamsKey
            /\ ~IsRankingsKey(StoreOps(h[w].log)[i].key)

\* C33: the games key is injective up to letter case: the key a games
\* request computed is the key of another team filter and year only if the
\* year is the same and the two filters differ at most in letter case.
C33_KeyInjective ==
    \A w \in Workers : (h[w].kind = "games" /\ h[w].cacheKey # <<>>) =>
        \A t \in GamesTeams \ {<<>>}, yp \in RequestYears :
            GamesKey(t, YearOrDefault(yp)) = h[w].cacheKey =>
                /\ YearOrDefault(yp) = h[w].year
                /\ ToUpper(t) = ToUpper(h[w].team)

----------------------------------------------------------------------------
(* Properties of store errors and expiry during a request                  *)

\* the request's EXISTS returned an error
ExistsFailed(rec) == rec.log # <<>> /\ rec.log[1].op = "EXISTS" /\ ~rec.log[1].ok

\* the handler of this kind caches the body
CachesBody(kind, body) == kind = "teams" => UnmarshalRecords(body).ok

\* C34: an error from EXISTS is treated as a miss. The handler issues no
\* GET, makes its one upstream call and, when it gets a response it
\* caches (teams: an array of records), goes on to the SET and answers
\* from upstream; a preload whose EXISTS failed goes on to the upstream
\* call for that key, and the rankings preload to the SET when the call
\* returned.
C34_ExistsErrorIsMiss ==
    /\ \A w \in Workers : ExistsFailed(h[w]) =>
          /\ h[w].pc \in {"fetch", "set", "done"}
          /\ h[w].got = NoBytes
          /\ \A i \in 1..Len(h[w].log) : h[w].log[i].op # "GET"
          /\ h[w].pc = "fetch" => Len(h[w].log) = 1
          /\ h[w].pc = "done" =>
                /\ HttpCalls(h[w].log) = 1
                /\ h[w].up # NoResp =>
                      /\ AnsweredFromUpstream(w)
                      /\ CachesBody(h[w].kind, h[w].up.body) => h[w].log[Len(h[w].log)].op = "SET"
    /\ \A i \in 1..Len(pre.log) :
          (pre.log[i].op = "EXISTS" /\ ~pre.log[i].ok) =>
             /\ i = Len(pre.log) => pre.pc = "fetch"
             /\ i < Len(pre.log) => pre.log[i + 1].op = "HTTP"
             /\ (i + 1 < Len(pre.log) /\ pre.log[i + 1].ok /\ IsRankingsKey(pre.log[i].key)) =>
                   pre.log[i + 2].op = "SET" /\ pre.log[i + 2].key = pre.log[i].key

\* the check of a rankings key that was there returned an error; the
\* request fetched the list, answered with it and wrote it over the entry
C34_Witness ==
    \E w \in Workers :
        /\ h[w].kind = "rankings" /\ h[w].pc = "done"
        /\ h[w].log[1] = [ExistsEvent(h[w].cacheKey, FALSE) EXCEPT !.present = TRUE]
        /\ [i \in 1..Len(h[w].log) |-> h[w].log[i].op] = <<"EXISTS", "HTTP", "SET">>
        /\ WroteLast(h[w])
        /\ h[w].resp = Resp(200, JsonType, h[w].up.body)

\* the request's EXISTS found the key and its GET then returned an error
\* (redis.Nil for a key that is gone, or a failed command)
FoundThenLost(rec) ==
    /\ Len(rec.log) >= 2
    /\ rec.log[1].op = "EXISTS" /\ rec.log[1].ok /\ rec.log[1].present
    /\ rec.log[2].op = "GET" /\ ~rec.log[2].ok

\* C35: when the key expires between a handler's EXISTS, which found it,
\* and its GET, the GET's error is taken as a miss: the step from the GET
\* leads to the upstream call, not to an error response, and leaves the
\* store alone; the request then makes its one upstream call, writes the
\* key again when it gets a response it caches, and answers from upstream.
C35_ExpiryBetweenCheckAndGet ==
    /\ [](\A w \in Workers : FoundThenLost(h[w]) =>
            /\ h[w].pc \in {"fetch", "set", "done"}
            /\ h[w].got = NoBytes
            /\ h[w].pc = "done" =>
                  /\ HttpCalls(h[w].log) = 1
                  /\ h[w].up # NoResp =>
                        /\ AnsweredFromUpstream(w)
                        /\ CachesBody(h[w].kind, h[w].up.body) => h[w].log[Len(h[w].log)].op = "SET")
    /\ [][\A w \in Workers :
            (h[w].pc = "get" /\ h'[w] # h[w] /\ KeyOf(h[w]) \notin DOMAIN store) =>
               /\ FoundThenLost(h'[w])
               /\ h'[w].pc = "fetch"
               /\ store' = store]_vars
    /\ [][\A w \in Workers :
            (FoundThenLost(h[w]) /\ Wrote(w)) =>
               /\ KeyOf(h[w]) \in DOMAIN store'
               /\ store'[KeyOf(h[w])].ttl = OneYear]_vars

\* a games request found its key, lost it before the GET, fetched the list,
\* wrote the key again and answered 200
C35_Witness ==
    \E w \in Workers :
        /\ h[w].kind = "games" /\ h[w].pc = "done" /\ FoundThenLost(h[w])
        /\ [i \in 1..Len(h[w].log) |-> h[w].log[i].op] = <<"EXISTS", "GET", "HTTP", "SET">>
        /\ WroteLast(h[w])
        /\ h[w].cacheKey \in DOMAIN store /\ store[h[w].cacheKey] = Written(h[w])
        /\ h[w].resp = Resp(200, JsonType, PayloadA)

----------------------------------------------------------------------------
(* Termination of the rankings preload                                     *)

\* how many times the preload checked year y's key
Checks(y) ==
    Len(SelectSeq(pre.log, LAMBDA e : e.op = "EXISTS" /\ e.key = RankingsKey(Itoa(y))))

\* C36: the rankings preload terminates when every call returns: once
\* started it reaches its return; it checks each year's key at most once,
\* the years below the loop variable exactly once and those above not yet;
\* the loop variable only ever goes up by one; and when it has returned
\* every year from 1900 to the current one has been visited exactly once,
\* whatever failed on the way.
C36_PreloadTerminates ==
    /\ [](mainpc = "preloadRankings" =>
            /\ pre.y \in FirstYear..(CurrentYear + 1)
            /\ \A y \in PreloadYears :
                  Checks(y) = (IF y < pre.y \/ (y = pre.y /\ pre.pc # "start") THEN 1 ELSE 0))
    /\ [](RankingsPreloadDone => \A y \in PreloadYears : Checks(y) = 1)
    /\ [][mainpc' = "preloadRankings" => pre'.y \in {pre.y, pre.y + 1}]_vars
    /\ [][(mainpc = "preloadRankings" /\ mainpc' # mainpc) =>
            (mainpc' = "listen" /\ pre'.y = CurrentYear + 1 /\ pre'.err = "")]_vars
    /\ (mainpc = "preloadRankings") ~> (mainpc = "listen")

\* the preload has returned although the first year's upstream call failed
\* and the last year's write failed
C36_Witness ==
    /\ RankingsPreloadDone /\ pre.y = CurrentYear + 1
    /\ \A y \in PreloadYears : Checks(y) = 1
    /\ \E i \in 1..Len(pre.log) :
          pre.log[i] = Event("HTTP", RankingsURL(Itoa(FirstYear)), FALSE, PreloadRankingsTimeout)
    /\ pre.log[Len(pre.log)] = Event("SET", RankingsKey(Itoa(CurrentYear)), FALSE, 0)

----------------------------------------------------------------------------
(* Failure of the teams preload                                            *)

\* preloadTeamsCache has returned an error
TeamsPreloadFailed == pre.err # ""

\* C37: a failure of the teams preload (the fetch, the parse or the SET)
\* stops nothing: the failing step leaves the store as it was and hands
\* over to the rankings preload, which starts at 1900 and visits every
\* year; no successful write of CFB_TEAMS is on the preload's record; and
\* the server goes on to serve requests.
C37_TeamsPreloadFailure ==
    /\ [](TeamsPreloadFailed =>
            /\ mainpc \in {"preloadRankings", "listen"} /\ redisService
            /\ \A i \in 1..Len(pre.log) : pre.log[i] # Event("SET", TeamsKey, TRUE, 0)
            /\ mainpc = "listen" => \A y \in PreloadYears : Checks(y) = 1)
    /\ [][(mainpc = "preloadTeams" /\ TeamsPreloadFailed') =>
            /\ store' = store
            /\ mainpc' = "preloadRankings"
            /\ pre'.pc = "start" /\ pre'.y = FirstYear]_vars
    /\ TeamsPreloadFailed ~> (mainpc = "serving")

\* the teams preload could not write the list; the rankings preload then
\* ran and cached the current year, and main is about to listen
C37_Witness ==
    /\ mainpc = "listen" /\ pre.err = "failed to cache teams"
    /\ TeamsKey \notin DOMAIN store
    /\ RankingsKey(Itoa(CurrentYear)) \in DOMAIN store
    /\ store[RankingsKey(Itoa(CurrentYear))].ttl = OneYear

----------------------------------------------------------------------------
(* Cold and warm teams responses                                           *)

\* what a teams miss writes to CFB_TEAMS for the upstream body it fetched
TeamsCachedForm(body) == Bytes(EncodeTeams(Simplify(UnmarshalRecords(body).v)), "compact")

\* worker w answered a teams miss and its SET went through
TeamsCold(w) ==
    /\ TeamsMiss(w)
    /\ h[w].log[Len(h[w].log)] = Event("SET", TeamsKey, TRUE, 0)

\* worker v answered from the entry that w's upstream data produces
TeamsWarmAfter(w, v) == TeamsHit(v) /\ h[v].got = TeamsCachedForm(h[w].up.body)

\* C38: a teams miss that cached its list and a teams hit that read the
\* entry made from the same upstream data answer alike: both 200 with the
\* JSON content type, and the two bodies decode to the same array, record
\* by record with the same field names and the same values; the struct's
\* field order id, name, school being the order map keys are sorted in, the
\* two bodies are in fact the same bytes.
C38_ColdEqualsWarm ==
    \A w \in Workers : \A v \in Workers \ {w} :
        (TeamsCold(w) /\ TeamsWarmAfter(w, v)) =>
            /\ h[w].resp.status = 200 /\ h[v].resp.status = 200
            /\ h[w].resp.ctype = JsonType /\ h[v].resp.ctype = JsonType
            /\ Valid(h[w].resp.body) /\ Valid(h[v].resp.body)
            /\ Decode(h[w].resp.body.tree) = Decode(h[v].resp.body.tree)
            /\ h[w].resp.body = h[v].resp.body

\* worker 1 missed on a non-empty upstream list carrying a school and cached
\* it; worker 2, asked for another year, then answered from that entry
C38_Witness ==
    /\ TeamsCold(1) /\ TeamsWarmAfter(1, 2)
    /\ h[1].year # h[2].year
    /\ store[TeamsKey].val = h[2].got
    /\ Len(h[1].resp.body.tree.items) > 0
    /\ \E i \in 1..Len(h[1].up.body.tree.items) :
          /\ h[1].up.body.tree.items[i].t = "obj"
          /\ "school" \in {h[1].up.body.tree.items[i].keys[j] :
                              j \in 1..Len(h[1].up.body.tree.items[i].keys)}
====
